---- MODULE Spec2Model ----
(***************************************************************************)
(* Model of the sync engine of the Claude Code Context Syncer              *)
(* (src/src/syncer.ts, class ContextSyncer) with the parts of the plugin   *)
(* and of the utilities it drives.                                         *)
(*                                                                         *)
(* One step of the model is one turn of the JavaScript event loop: the     *)
(* code that runs between two awaits of an async function, a timer         *)
(* callback, or a watcher event handler.  Several specifications share     *)
(* the variables:                                                          *)
(*   Spec         watch subscription, debounce timers, the per-file sync   *)
(*                pipeline and the bulk sync over one log;                 *)
(*   PipelineSpec bulk syncs of a log with malformed lines;                *)
(*   PairSpec     bulk syncs of two logs;                                  *)
(*   WatchSpec    the life cycle of the subscription: stop, watcher        *)
(*                errors, restart;                                         *)
(*   LiveSpec     the recovery from watcher errors, with the fairness the  *)
(*                event loop gives;                                        *)
(*   OracleSpec   shouldSync applied to every sidecar state and mtime;     *)
(*   BatchSpec    the batch loop of syncAllExisting over many files;       *)
(*   SyncLiveSpec watch-triggered syncs of one log with fairness;          *)
(*   ConfigSpec   the plugin loaded with and without a source path;        *)
(*   DebounceSpec the debounce timers of two logs side by side;            *)
(*   RestartSpec  restarts after a burst of watcher errors;                *)
(*   ParseSpec, MetadataSpec, SanitizeSpec, DecodeSpec, TargetSpec         *)
(*                the pure functions applied to bounded inputs;            *)
(*   SetupSpec    the two link-setup scripts.                              *)
(*   StopLiveSpec the subscription stopped while a sync runs;              *)
(*   RecoverSpec  events accepted around a restart of the subscription;    *)
(*   PluginSpec   the plugin replacing its engine on an auto-sync toggle;  *)
(*   OrderSpec    PipelineSpec over a destination other devices write to;  *)
(*   DirsSpec     bulk syncs of two logs meeting watch-triggered syncs,    *)
(*                with unreadable project directories;                     *)
(*   ShortPathSpec one sync of a path shorter than root/project/file.      *)
(*                                                                         *)
(* Time is counted in ticks of one second.                                 *)
(***************************************************************************)
EXTENDS Integers, Sequences, FiniteSets, TLC

\* ------------------------------------------------------------------ bounds
\* The clock stops at MaxTime.
MaxTime == 2
\* A source log holds at most MaxLines lines.
MaxLines == 2
\* At most MaxErrors watcher 'error' events are delivered.
MaxErrors == 1
\* The clock of WatchSpec and LiveSpec stops at WatchMaxTime.
WatchMaxTime == 6
\* RestartSpec: at most MaxBurst watcher 'error' events are delivered.
MaxBurst == 2
\* ParseSpec: a log holds at most MaxParseLines lines.
MaxParseLines == 3
\* SanitizeSpec: a name is a run of letters followed by at most MaxTail
\* characters of any kind.
MaxTail == 3
MaxTokens == 4
MaxSegment == 2
\* OracleSpec: modification times and syncedAt stamps range over 0..MaxStamp.
MaxStamp == 4
\* The plugin creates at most MaxEngines engines.
MaxEngines == 2
\* BatchSpec: a bulk sync finds at most MaxFiles logs.
MaxFiles == 25

\* ------------------------------------------------------- program constants
\* setTimeout(..., 1000) in scheduleSyncWithDebounce, in seconds.
DebounceDelay == 1
\* setTimeout(..., 5000) in handleWatchError, in seconds.
RestartDelay == 5
\* setTimeout(() => this.syncAllExisting(), 1000) in initialize, in seconds.
StartupDelay == 1
\* const batchSize = 10 in syncAllExisting.
batchSize == 10
\* .substring(0, 255) in sanitizeFileName.
NameLimit == 255

\* The source logs {root}/{encoded}/{session}.jsonl the model follows, in the
\* order readdir lists them.
PathOrder == <<"p1", "p2">>
Paths == {PathOrder[i] : i \in 1..Len(PathOrder)}

\* A line of a log: a record that decodes, text that does not, or a line of
\* nothing but whitespace.
LineKinds == {"entry", "junk", "blank"}

Min(a, b) == IF a < b THEN a ELSE b

IsPrefix(s, t) == Len(s) <= Len(t) /\ SubSeq(t, 1, Len(s)) = s

VARIABLES
    now,             \* Date.now(), in ticks
    src,             \* source files: [exists, data, mtime] per path
    copy,            \* destination copies {sessionId}.jsonl: [exists, data]
    meta,            \* sidecars {sessionId}.meta.json: [kind, syncedAt, messageCount]
    dirs,            \* the paths whose destination project directory exists
    lastSyncTime,    \* plugin.settings.lastSyncTime
    settings,        \* plugin.settings: enableAutoSync, syncOnStartup
    watcher,         \* this.watcher: 0 (null) or a subscription id
    subs,            \* the open chokidar subscriptions (listeners attached)
    notify,          \* <<subscription, path>>: events chokidar has yet to emit
    pendingSyncs,    \* this.pendingSyncs: path -> timer id, 0 when absent
    timers,          \* the armed timers of the event loop
    syncInProgress,  \* this.syncInProgress
    calls,           \* the running syncSingleFile executions
    bulk,            \* the running syncAllExisting, if any
    procs,           \* the running stopWatching / startWatching tasks
    errors,          \* watcher 'error' events delivered so far
    rets,            \* history: the syncSingleFile returns of the last step
    done,            \* history: how the last finished sync of a path ended
    touched,         \* history: source modified since that sync returned (ret),
                     \*          since the last syncedAt stamp was taken (stamp)
    fired,           \* history: debounce callbacks run in the last step
    burst,           \* history: the events of a path not yet followed by an
                     \*          executeSync (last, events), and the executeSyncs
    stopped,         \* history: timers outstanding when a stopWatching began
    stopRet,         \* history: a stopWatching returned in the last step
    oracle,          \* OracleSpec: the inputs and the answer of shouldSync
    bat,             \* BatchSpec: the state of the batch loop
    fn               \* the specifications of the functions and scripts that run
                     \*   on their own: the function applied, its input and, once
                     \*   applied, its output; the state of a script run

vars == <<now, src, copy, meta, dirs, lastSyncTime, settings, watcher, subs, notify,
          pendingSyncs, timers, syncInProgress, calls, bulk, procs, errors,
          rets, done, touched, fired, burst, stopped, stopRet, oracle, bat, fn>>

fsVars == <<src, copy, meta, dirs>>
watchVars == <<watcher, subs, notify, pendingSyncs, timers, procs, errors>>
syncVars == <<syncInProgress, calls, bulk, lastSyncTime>>
histVars == <<rets, done, touched, fired, burst, stopped, stopRet>>
otherSpecVars == <<settings, oracle, bat, fn>>

\* ------------------------------------------------------------- file states
NoFile == [exists |-> FALSE, data |-> <<>>, mtime |-> 0]
NoCopy == [exists |-> FALSE, data |-> <<>>]
\* Sidecar contents: "absent" (no file), "valid" (what generateMetadata
\* wrote), "garbage" (not valid JSON, e.g. a truncated write), "nosyncedat"
\* (valid JSON without a syncedAt field), "unreadable" (readFile fails).
MetaKinds == {"absent", "valid", "garbage", "nosyncedat", "unreadable"}
NoMeta == [kind |-> "absent", syncedAt |-> 0, messageCount |-> 0]
GarbageMeta == [kind |-> "garbage", syncedAt |-> 0, messageCount |-> 0]

\* ------------------------------------------------------------ SyncResult
Rejected == [success |-> FALSE, action |-> "skipped", message |-> "Sync already in progress"]
UpToDate == [success |-> TRUE, action |-> "skipped", message |-> "Already up to date"]
EmptyFile == [success |-> FALSE, action |-> "skipped", message |-> "Empty JSONL file"]
ErrorResult == [success |-> FALSE, action |-> "error", message |-> "getErrorMessage(error)"]
\* A rejected promise: the error left syncSingleFile instead of a SyncResult.
Thrown == [success |-> FALSE, action |-> "thrown", message |-> "rejected"]
\* action: targetPaths.jsonlFile ? 'updated' : 'created', on a path string
\* that is never empty.
WrittenAction(jsonlFile) == IF jsonlFile # "" THEN "updated" ELSE "created"
Written(p) == [success |-> TRUE, action |-> WrittenAction(p), message |-> ""]

\* ------------------------------------------------------- pure components
\* sourceStats.mtimeMs > metadata.syncedAt.  With the field missing the
\* comparison is "number > undefined", which JavaScript evaluates to false.
NotOlderMutant(mtime, m) == m.kind = "valid" /\ mtime >= m.syncedAt
IsNewer(mtime, m) == m.kind = "valid" /\ mtime > m.syncedAt

\* shouldSync: TRUE when a sync is needed.  access / readFile / JSON.parse /
\* stat throwing lands in the catch, which answers true on every branch.
AlwaysSyncMutant(s, m) == TRUE
shouldSync(s, m) ==
    IF m.kind = "absent" THEN TRUE
    ELSE IF m.kind \in {"unreadable", "garbage"} THEN TRUE
    ELSE IF ~s.exists THEN TRUE
    ELSE IsNewer(s.mtime, m)

\* line.trim() === '' skips the line; JSON.parse(line) throws on text that is
\* no record ("summary" is a second record that decodes).
Decodes(l) == l \notin {"blank", "junk"}

\* parseJsonlFile: the lines that decode, in file order.
StopAtMalformedMutant(data) ==
    IF \E i \in DOMAIN data : data[i] = "junk"
    THEN SelectSeq(SubSeq(data, 1, (CHOOSE i \in DOMAIN data :
                        data[i] = "junk" /\ \A k \in 1..(i - 1) : data[k] # "junk") - 1),
                   Decodes)
    ELSE SelectSeq(data, Decodes)
KeepAllMutant(data) == data
parseJsonlFile(data) == SelectSeq(data, Decodes)

\* generateMetadata: the sidecar record (the fields the engine reads back).
generateMetadata(messages, t) ==
    [kind |-> "valid", syncedAt |-> t, messageCount |-> Len(messages)]

\* The catch of syncSingleFile turns whatever was thrown into a SyncResult.
RethrowMutant == Thrown
CatchError == ErrorResult

\* What fs.writeFile(jsonlFile, originalContent) stores.
ReserializedMutant(originalContent) == parseJsonlFile(originalContent)
CopyBytes(originalContent) == originalContent

\* ------------------------------------------------------ syncSingleFile
\* The guard at the top of syncSingleFile.
NoGuardMutant(p) == FALSE
InProgressCheck(p) == p \in syncInProgress

\* A running call: its place in the code and its locals; wrote, existed and
\* fresh are history (the destination directory, copy or sidecar was touched;
\* the copy existed before it was written; when the oracle was asked the
\* source had not been modified since the last syncedAt stamp was taken).
NewCall(p, origin, idx) ==
    [path |-> p, origin |-> origin, idx |-> idx, pc |-> "shouldSync",
     messages |-> <<>>, metadata |-> NoMeta, data |-> <<>>,
     wrote |-> FALSE, existed |-> FALSE, fresh |-> FALSE]

RetEvent(p, origin, result, wrote, existed, data, fresh, inProg) ==
    [path |-> p, origin |-> origin, result |-> result, wrote |-> wrote,
     existed |-> existed,
     data |-> data, fresh |-> fresh, inProg |-> inProg,
     prevWrote |-> (done[p] = "wrote"), untouched |-> ~touched[p].ret]

\* The synchronous head of syncSingleFile for the files F (a sequence of
\* distinct paths): reject the ones in progress, mark and start the others.
Accepted(F) == {i \in DOMAIN F : ~InProgressCheck(F[i])}
StartedCalls(F, origin, off) == {NewCall(F[i], origin, off + i) : i \in Accepted(F)}
RejectedRets(F, origin) ==
    {RetEvent(F[i], origin, Rejected, FALSE, FALSE, <<>>, FALSE, F[i] \in syncInProgress) :
        i \in DOMAIN F \ Accepted(F)}

\* A finished call hands its result to its caller: executeSync logs it, the
\* batch of syncAllExisting keeps it at the file's position.
Deliver(c, result) ==
    IF c.origin = "bulk" /\ bulk.pc = "batch"
    THEN [bulk EXCEPT !.res[c.idx] = result]
    ELSE bulk

\* finally: this.syncInProgress.delete(filePath)
KeepMarkerMutant(p) == syncInProgress
Release(p) == syncInProgress \ {p}

\* return / catch / finally of syncSingleFile; h is c with its history flags
\* brought up to date.
FinishAs(c, h, result) ==
    /\ calls' = calls \ {c}
    /\ syncInProgress' = Release(c.path)
    /\ bulk' = Deliver(c, result)
    /\ rets' = {RetEvent(c.path, c.origin, result, h.wrote, h.existed, h.data, h.fresh,
                         FALSE)}
    /\ done' = [done EXCEPT ![c.path] = IF result.action \in {"created", "updated"}
                                        THEN "wrote" ELSE "other"]
    /\ touched' = [touched EXCEPT ![c.path].ret = FALSE]

Finish(c, result) == FinishAs(c, c, result)

\* The call goes on to its next await.
Advance(c, c2) ==
    /\ calls' = (calls \ {c}) \cup {c2}
    /\ rets' = {}
    /\ UNCHANGED <<syncInProgress, bulk, done>>

Continue(c, c2) == Advance(c, c2) /\ UNCHANGED touched

\* await this.shouldSync(filePath, targetPaths.metaFile)
ShouldSyncStep(c) ==
    /\ c.pc = "shouldSync"
    /\ LET p == c.path
           fresh == ~touched[p].stamp
       IN IF shouldSync(src[p], meta[p])
          THEN Continue(c, [c EXCEPT !.pc = "parse", !.fresh = fresh])
          ELSE FinishAs(c, [c EXCEPT !.fresh = fresh], UpToDate)
    /\ fired' = {} /\ stopRet' = FALSE
    /\ UNCHANGED <<now, fsVars, lastSyncTime, watchVars, burst, stopped, otherSpecVars>>

\* await this.parseJsonlFile(filePath): the stream is read.
ParseStep(c) ==
    /\ c.pc = "parse"
    /\ \E ok \in BOOLEAN :
        IF ok /\ src[c.path].exists
        THEN Continue(c, [c EXCEPT !.pc = "stamp",
                                   !.messages = parseJsonlFile(src[c.path].data)])
        ELSE Finish(c, CatchError)
    /\ fired' = {} /\ stopRet' = FALSE
    /\ UNCHANGED <<now, fsVars, lastSyncTime, watchVars, burst, stopped, otherSpecVars>>

\* messages.length === 0, then generateMetadata (syncedAt: Date.now()).
StampStep(c) ==
    /\ c.pc = "stamp"
    /\ IF Len(c.messages) = 0
       THEN Finish(c, EmptyFile)
       ELSE /\ Advance(c, [c EXCEPT !.pc = "mkdir",
                                    !.metadata = generateMetadata(c.messages, now)])
            /\ touched' = [touched EXCEPT ![c.path].stamp = FALSE]
    /\ fired' = {} /\ stopRet' = FALSE
    /\ UNCHANGED <<now, fsVars, lastSyncTime, watchVars, burst, stopped, otherSpecVars>>

\* The writes of syncSingleFile in the order of its awaits: ensureDirectory,
\* fs.readFile, fs.writeFile of the copy, fs.writeFile of the sidecar,
\* saveSettings.
SidecarFirstMutant(pc) ==
    CASE pc = "mkdir" -> "read"
      [] pc = "read" -> "writeMeta"
      [] pc = "writeMeta" -> "save"
      [] OTHER -> "save"
NextStage(pc) ==
    CASE pc = "mkdir" -> "read"
      [] pc = "read" -> "writeCopy"
      [] pc = "writeCopy" -> "writeMeta"
      [] pc = "writeMeta" -> "save"

\* await ensureDirectory(targetPaths.projectDir)
MkdirStep(c) ==
    /\ c.pc = "mkdir"
    /\ \E ok \in BOOLEAN :
        IF ok
        THEN /\ dirs' = dirs \cup {c.path}
             /\ Continue(c, [c EXCEPT !.pc = NextStage(c.pc), !.wrote = TRUE])
        ELSE /\ dirs' = dirs
             /\ Finish(c, CatchError)
    /\ fired' = {} /\ stopRet' = FALSE
    /\ UNCHANGED <<now, src, copy, meta, lastSyncTime, watchVars, burst, stopped, otherSpecVars>>

\* The engine opens a source file only to read it (createReadStream,
\* fs.readFile, fs.stat): the file is left as it is.
TruncatingReadMutant(S, p) == [S EXCEPT ![p].data = <<>>]
AfterRead(S, p) == S

\* await fs.readFile(filePath, 'utf-8')
ReadStep(c) ==
    /\ c.pc = "read"
    /\ \E ok \in BOOLEAN :
        IF ok /\ src[c.path].exists
        THEN /\ Continue(c, [c EXCEPT !.pc = NextStage(c.pc), !.data = src[c.path].data])
             /\ src' = AfterRead(src, c.path)
        ELSE /\ Finish(c, CatchError)
             /\ src' = src
    /\ fired' = {} /\ stopRet' = FALSE
    /\ UNCHANGED <<now, copy, meta, dirs, lastSyncTime, watchVars, burst, stopped,
                   otherSpecVars>>

\* await fs.writeFile(targetPaths.jsonlFile, originalContent, 'utf-8').  A
\* failing write leaves the file as it was or truncated.
WriteCopyStep(c) ==
    /\ c.pc = "writeCopy"
    /\ \E ok \in BOOLEAN, cut \in BOOLEAN :
        IF ok
        THEN /\ cut
             /\ copy' = [copy EXCEPT ![c.path] = [exists |-> TRUE, data |-> CopyBytes(c.data)]]
             /\ Continue(c, [c EXCEPT !.pc = NextStage(c.pc), !.wrote = TRUE,
                                        !.existed = copy[c.path].exists])
        ELSE /\ copy' = IF cut THEN [copy EXCEPT ![c.path] = [exists |-> TRUE, data |-> <<>>]]
                        ELSE copy
             /\ FinishAs(c, [c EXCEPT !.wrote = @ \/ cut], CatchError)
    /\ fired' = {} /\ stopRet' = FALSE
    /\ UNCHANGED <<now, src, meta, dirs, lastSyncTime, watchVars, burst, stopped, otherSpecVars>>

\* this.plugin.settings.lastSyncTime = Date.now() follows the write of the
\* sidecar; a write that throws skips it.
StampAlwaysMutant(written) == now
LastSyncAfter(written) == IF written THEN now ELSE lastSyncTime

\* await fs.writeFile(targetPaths.metaFile, JSON.stringify(metadata)), then
\* this.plugin.settings.lastSyncTime = Date.now().
WriteMetaStep(c) ==
    /\ c.pc = "writeMeta"
    /\ \E ok \in BOOLEAN, cut \in BOOLEAN :
        /\ lastSyncTime' = LastSyncAfter(ok)
        /\ IF ok
           THEN /\ cut
                /\ meta' = [meta EXCEPT ![c.path] = c.metadata]
                /\ Continue(c, [c EXCEPT !.pc = NextStage(c.pc)])
           ELSE /\ meta' = IF cut THEN [meta EXCEPT ![c.path] = GarbageMeta] ELSE meta
                /\ Finish(c, CatchError)
    /\ fired' = {} /\ stopRet' = FALSE
    /\ UNCHANGED <<now, src, copy, dirs, watchVars, burst, stopped, otherSpecVars>>

\* await this.plugin.saveSettings(), then the result.
SaveStep(c) ==
    /\ c.pc = "save"
    /\ \E ok \in BOOLEAN :
        IF ok THEN Finish(c, Written(c.path)) ELSE Finish(c, CatchError)
    /\ fired' = {} /\ stopRet' = FALSE
    /\ UNCHANGED <<now, fsVars, lastSyncTime, watchVars, burst, stopped, otherSpecVars>>

\* ------------------------------------------------------- the source path
\* The settings as loaded: the source path the user configured (empty when
\* none was) and the two switches.
SomePath == "~/projects"
WithPath(auto, startup) ==
    [claudeProjectsPath |-> SomePath, enableAutoSync |-> auto, syncOnStartup |-> startup]

\* expandHomePath: a leading ~ becomes the home directory.
expandHomePath(inputPath) == IF inputPath = SomePath THEN "/home/projects" ELSE inputPath

\* if (this.settings.claudeProjectsPath), if (!claudePath): a path is
\* configured when the string is not empty.
AnyPathMutant(claudePath) == TRUE
PathConfigured(claudePath) == claudePath # ""

\* ------------------------------------------------------ syncAllExisting
\* files.slice(i, i + batchSize), as the positions i+1 .. of the sequence.
BatchTooWideMutant(files, i) == SubSeq(files, i + 1, Min(i + batchSize + 1, Len(files)))
BatchOf(files, i) == SubSeq(files, i + 1, Min(i + batchSize, Len(files)))

\* Math.min(i + batch.length, files.length)
Progress(i, batchLen, n) == Min(i + batchLen, n)

\* A file of the bulk sync whose call has not been made yet, and one whose
\* call is running.
Unstarted == [success |-> FALSE, action |-> "unstarted", message |-> ""]
NoResult == [success |-> FALSE, action |-> "pending", message |-> ""]

\* The locals of syncAllExisting: claudePath, files, i, the results of the calls by file
\* position (res), results, the counts handed to updateStatusBar (progress);
\* sizes is history: the length of every batch started.
IdleBulk == [pc |-> "idle", claudePath |-> "", files |-> <<>>, i |-> 0, res |-> <<>>,
             results |-> <<>>, progress |-> <<>>, sizes |-> <<>>]

\* findAllJsonlFiles with the failure of one project directory ending the scan.
StopAtUnreadableMutant(unreadable) ==
    LET found == SelectSeq(PathOrder, LAMBDA p : src[p].exists)
        bad == {k \in DOMAIN found : found[k] \in unreadable}
    IN IF bad = {} THEN found
       ELSE SubSeq(found, 1, (CHOOSE k \in bad : \A j \in bad : k <= j) - 1)

\* findAllJsonlFiles: the logs of every project directory that can be read.
findAllJsonlFiles(unreadable) ==
    SelectSeq(PathOrder, LAMBDA p : src[p].exists /\ p \notin unreadable)

\* The loop body up to Promise.all: batch = files.slice(i, i + batchSize) and
\* one call per file of it; `rejected` are the batch positions whose call
\* returned at the in-progress check.
BatchStarted(b, files, i, rejected) ==
    LET batch == BatchOf(files, i)
    IN [b EXCEPT !.pc = "batch", !.files = files, !.i = i,
                 !.sizes = Append(b.sizes, Len(batch)),
                 !.res = [k \in DOMAIN files |->
                            IF k <= i THEN b.res[k]
                            ELSE IF k - i \in rejected THEN Rejected
                            ELSE IF k - i \in DOMAIN batch THEN NoResult
                            ELSE Unstarted]]

\* Promise.all(batch.map(f => this.syncSingleFile(f))): the synchronous head
\* of every call of the batch runs before the first await.
StartBatch(b, files, i) ==
    LET batch == BatchOf(files, i)
    IN /\ bulk' = BatchStarted(b, files, i, DOMAIN batch \ Accepted(batch))
       /\ calls' = calls \cup StartedCalls(batch, "bulk", i)
       /\ syncInProgress' = syncInProgress \cup {batch[k] : k \in DOMAIN batch}
       /\ rets' = RejectedRets(batch, "bulk")

\* syncAllExisting up to the await of findAllJsonlFiles, or to return results
\* (empty) when no source path is configured.
BulkBegin(b) ==
    LET claudePath == expandHomePath(settings.claudeProjectsPath)
    IN IF PathConfigured(claudePath)
       THEN [b EXCEPT !.pc = "discover", !.claudePath = claudePath]
       ELSE [b EXCEPT !.pc = "done", !.claudePath = claudePath]

\* The readdir calls answer; the first batch starts.
BulkDiscover ==
    /\ bulk.pc = "discover"
    /\ \E ok \in BOOLEAN, unreadable \in SUBSET Paths :
        LET files == findAllJsonlFiles(unreadable)
        IN IF ~ok \/ Len(files) = 0
           THEN /\ ~ok => unreadable = {}
                /\ bulk' = [bulk EXCEPT !.pc = "done"]
                /\ rets' = {}
                /\ UNCHANGED <<calls, syncInProgress>>
           ELSE /\ ok
                /\ StartBatch([bulk EXCEPT !.progress = <<0>>], files, 0)
    /\ fired' = {} /\ stopRet' = FALSE
    /\ UNCHANGED <<now, fsVars, lastSyncTime, watchVars, done, touched, burst,
                   stopped, otherSpecVars>>

\* The positions of the files of the current batch.
Current(b) == (b.i + 1)..(b.i + Len(BatchOf(b.files, b.i)))

\* Promise.all rejects as soon as one call rejects.
Rejects(b) == \E k \in Current(b) : b.res[k] = Thrown

\* Promise.all settles: every call has returned, or one has rejected.
BatchSettled(b) == (\A k \in Current(b) : b.res[k] # NoResult) \/ Rejects(b)

\* results.push(...batchResults) and the progress report of lines 198-202.
Pushed(b) ==
    [b EXCEPT !.results = b.results \o [k \in 1..Len(BatchOf(b.files, b.i)) |-> b.res[b.i + k]],
              !.progress = Append(b.progress,
                                  Progress(b.i, Len(BatchOf(b.files, b.i)), Len(b.files)))]

\* for (...; i < files.length; i += batchSize)
MoreBatches(b) == b.i + batchSize < Len(b.files)

\* Promise.all settles: push the results, report progress, next batch or end.
\* A rejecting call rejects Promise.all and lands in the catch of line 211.
BulkBatchDone ==
    /\ bulk.pc = "batch"
    /\ BatchSettled(bulk)
    /\ IF Rejects(bulk)
       THEN /\ bulk' = [bulk EXCEPT !.pc = "done"]
            /\ rets' = {}
            /\ UNCHANGED <<calls, syncInProgress>>
       ELSE IF MoreBatches(bulk)
       THEN StartBatch(Pushed(bulk), bulk.files, bulk.i + batchSize)
       ELSE /\ bulk' = [Pushed(bulk) EXCEPT !.pc = "done"]
            /\ rets' = {}
            /\ UNCHANGED <<calls, syncInProgress>>
    /\ fired' = {} /\ stopRet' = FALSE
    /\ UNCHANGED <<now, fsVars, lastSyncTime, watchVars, done, touched, burst,
                   stopped, otherSpecVars>>

\* return results: the caller (the settings tab, the startup timer) has them.
BulkReturn ==
    /\ bulk.pc = "done"
    /\ bulk' = IdleBulk
    /\ rets' = {} /\ fired' = {} /\ stopRet' = FALSE
    /\ UNCHANGED <<now, fsVars, lastSyncTime, watchVars, calls, syncInProgress,
                   done, touched, burst, stopped, otherSpecVars>>

\* The "Sync Now" button of the settings tab: plugin.syncer.syncAllExisting().
ManualSync ==
    /\ procs.initd
    /\ bulk.pc = "idle"
    /\ bulk' = BulkBegin(bulk)
    /\ rets' = {} /\ fired' = {} /\ stopRet' = FALSE
    /\ UNCHANGED <<now, fsVars, lastSyncTime, watchVars, calls, syncInProgress,
                   done, touched, burst, stopped, otherSpecVars>>

\* ------------------------------------------------------- timers, watching
TimerIds(T) == {t.id : t \in T}
\* setTimeout returns a handle no live timer has.
NewTimerId(T) == CHOOSE i \in 1..(Cardinality(T) + 1) : i \notin TimerIds(T)
ClearTimeout(T, id) == {t \in T : t.id # id}
Due(t) == t.due <= now

NoBurst == [last |-> -1, events |-> 0, execs |-> 0]

\* scheduleSyncWithDebounce, lines 127-130: cancel the timer of this path.
KeepExistingMutant(p) == timers
CancelExisting(p) ==
    IF pendingSyncs[p] # 0 THEN ClearTimeout(timers, pendingSyncs[p]) ELSE timers

\* scheduleSyncWithDebounce, lines 133-142: arm the new timer and record it.
DebounceTimer(T, p) ==
    [id |-> NewTimerId(T), kind |-> "debounce", path |-> p, due |-> now + DebounceDelay]

\* The 'add' / 'change' handler of a subscription: scheduleSyncWithDebounce.
OnFsEvent(h, p) ==
    /\ <<h, p>> \in notify
    /\ notify' = notify \ {<<h, p>>}
    /\ LET kept == CancelExisting(p)
           t == DebounceTimer(kept, p)
       IN /\ timers' = kept \cup {t}
          /\ pendingSyncs' = [pendingSyncs EXCEPT ![p] = t.id]
    /\ burst' = [burst EXCEPT ![p] = [last |-> now, events |-> Min(@.events + 1, 2),
                                      execs |-> 0]]
    /\ rets' = {} /\ fired' = {} /\ stopRet' = FALSE
    /\ UNCHANGED <<now, fsVars, syncVars, watcher, subs, procs, errors, done,
                   touched, stopped, otherSpecVars>>

\* this.pendingSyncs.delete(filePath)
KeepPendingMutant(p) == pendingSyncs
Forget(p) == [pendingSyncs EXCEPT ![p] = 0]

\* The debounce callback: pendingSyncs.delete(filePath); executeSync(filePath),
\* which runs the synchronous head of syncSingleFile.
FireDebounce(t) ==
    /\ t \in timers /\ t.kind = "debounce" /\ Due(t)
    /\ timers' = timers \ {t}
    /\ pendingSyncs' = Forget(t.path)
    /\ calls' = calls \cup StartedCalls(<<t.path>>, "watch", 0)
    /\ syncInProgress' = syncInProgress \cup {t.path}
    /\ rets' = RejectedRets(<<t.path>>, "watch")
    /\ fired' = {[path |-> t.path, due |-> t.due, last |-> burst[t.path].last,
                  events |-> burst[t.path].events,
                  before |-> burst[t.path].execs, afterStop |-> t \in stopped]}
    /\ burst' = [burst EXCEPT ![t.path] =
                    [last |-> -1, events |-> 0, execs |-> Min(@.execs + 1, 2)]]
    /\ stopped' = stopped \ {t}
    /\ stopRet' = FALSE
    /\ UNCHANGED <<now, fsVars, lastSyncTime, bulk, watcher, subs, notify, procs,
                   errors, done, touched, otherSpecVars>>

\* stopWatching, lines 114-118: clear every timer of pendingSyncs, then the map.
CancelPending(T) == {t \in T : t.id \notin {pendingSyncs[p] : p \in Paths}}

\* watcher.close(): the listeners are removed at once.
Close(h) == subs \ {h}
Unsubscribed(h) == {e \in notify : e[1] # h}

NewSub == CHOOSE i \in 1..(Cardinality(subs) + 2) : i \notin subs \cup {watcher}

PendingTimers == {t \in timers : t.kind = "debounce"}

\* The restart callback after await this.stopWatching(): startWatching finds
\* this.watcher null and, when the path is configured, awaits fs.access.
\* The stopWatching the host called returns to the host (off is history: the
\* host has stopped the engine).
ThenStart(after, P) ==
    IF after = "restart" /\ PathConfigured(expandHomePath(settings.claudeProjectsPath))
    THEN [P EXCEPT !.start = @ + 1]
    ELSE IF after = "stop" THEN [P EXCEPT !.off = TRUE]
    ELSE P

\* stopWatching up to its await (or to its end, when there is no watcher),
\* followed by what `after` makes the caller do next.
\*   after = "stop":    the host called stopWatching;
\*   after = "restart": the restart callback goes on to startWatching.
StopHead(after, T) ==
    IF watcher # 0
    THEN /\ subs' = Close(watcher)
         /\ notify' = Unsubscribed(watcher)
         /\ procs' = [procs EXCEPT ![after] = @ + 1]
         /\ timers' = T
         /\ stopped' = stopped \cup PendingTimers
         /\ stopRet' = FALSE
         /\ UNCHANGED <<watcher, pendingSyncs, burst>>
    ELSE /\ timers' = CancelPending(T)
         /\ pendingSyncs' = [p \in Paths |-> 0]
         /\ burst' = [p \in Paths |-> IF pendingSyncs[p] # 0 THEN NoBurst ELSE burst[p]]
         /\ stopped' = {}
         /\ stopRet' = TRUE
         /\ procs' = ThenStart(after, procs)
         /\ UNCHANGED <<watcher, subs, notify>>

\* The plugin calls syncer.stopWatching() (auto-sync switched off, unload).
HostStop ==
    /\ procs.initd
    /\ procs.stop = 0
    /\ StopHead("stop", timers)
    /\ rets' = {} /\ fired' = {}
    /\ UNCHANGED <<now, fsVars, syncVars, errors, done, touched, otherSpecVars>>

\* stopWatching clears pendingSyncs and nothing else: syncInProgress is not
\* among the fields it touches.
ClearMarkersMutant == {}
InProgressAfterStop == syncInProgress

\* stopWatching after await this.watcher.close(): this.watcher = null, the
\* pending timers are cleared; a restart goes on into startWatching, which
\* finds this.watcher null and awaits fs.access.
StopResume(after) ==
    /\ procs[after] > 0
    /\ watcher' = 0
    /\ timers' = CancelPending(timers)
    /\ pendingSyncs' = [p \in Paths |-> 0]
    /\ burst' = [p \in Paths |-> IF pendingSyncs[p] # 0 THEN NoBurst ELSE burst[p]]
    /\ stopped' = {}
    /\ stopRet' = TRUE
    /\ procs' = ThenStart(after, [procs EXCEPT ![after] = @ - 1])
    /\ syncInProgress' = InProgressAfterStop
    /\ rets' = {} /\ fired' = {}
    /\ UNCHANGED <<now, fsVars, calls, bulk, lastSyncTime, subs, notify, errors, done,
                   touched, otherSpecVars>>

\* setTimeout(() => this.syncAllExisting(), 1000), when syncOnStartup is set.
StartupTimer(T) ==
    IF settings.syncOnStartup
    THEN T \cup {[id |-> NewTimerId(T), kind |-> "startup", path |-> "",
                  due |-> now + StartupDelay]}
    ELSE T

\* startWatching after await fs.access(claudePath): chokidar.watch and the
\* handlers, or the catch (Notice) when the path cannot be accessed.
\* initialize then arms the startup sync.
StartResume(who) ==
    /\ procs[who] > 0
    /\ \E ok \in BOOLEAN :
        /\ IF ok
           THEN /\ watcher' = NewSub
                /\ subs' = subs \cup {NewSub}
           ELSE UNCHANGED <<watcher, subs>>
        /\ procs' = [procs EXCEPT ![who] = @ - 1]
    /\ timers' = IF who = "init" THEN StartupTimer(timers) ELSE timers
    /\ rets' = {} /\ fired' = {} /\ stopRet' = FALSE
    /\ UNCHANGED <<now, fsVars, syncVars, notify, pendingSyncs, errors, done,
                   touched, burst, stopped, otherSpecVars>>

\* onload: plugin.initializeSyncer.  Without a source path no engine is
\* created.  With one, new ContextSyncer and syncer.initialize(): with
\* enableAutoSync, startWatching up to its await of fs.access; without,
\* straight to the startup timer.
Initialize ==
    /\ ~procs.loaded
    /\ IF ~PathConfigured(settings.claudeProjectsPath)
       THEN /\ procs' = [procs EXCEPT !.loaded = TRUE]
            /\ timers' = timers
       ELSE IF settings.enableAutoSync
       THEN /\ procs' = [procs EXCEPT !.loaded = TRUE, !.initd = TRUE, !.init = 1]
            /\ timers' = timers
       ELSE /\ procs' = [procs EXCEPT !.loaded = TRUE, !.initd = TRUE]
            /\ timers' = StartupTimer(timers)
    /\ rets' = {} /\ fired' = {} /\ stopRet' = FALSE
    /\ UNCHANGED <<now, fsVars, syncVars, watcher, subs, notify, pendingSyncs,
                   errors, done, touched, burst, stopped, otherSpecVars>>

\* The startup timer of initialize: syncAllExisting().
FireStartup(t) ==
    /\ t \in timers /\ t.kind = "startup" /\ Due(t)
    /\ bulk.pc = "idle"
    /\ timers' = timers \ {t}
    /\ bulk' = BulkBegin(bulk)
    /\ rets' = {} /\ fired' = {} /\ stopRet' = FALSE
    /\ UNCHANGED <<now, fsVars, lastSyncTime, calls, syncInProgress, watcher, subs,
                   notify, pendingSyncs, procs, errors, done, touched, burst,
                   stopped, otherSpecVars>>

\* The 'error' handler of a subscription: handleWatchError arms the restart.
WatchError(h) ==
    /\ h \in subs
    /\ errors' = errors + 1
    /\ timers' = timers \cup {[id |-> NewTimerId(timers), kind |-> "restart",
                               path |-> "", due |-> now + RestartDelay]}
    /\ rets' = {} /\ fired' = {} /\ stopRet' = FALSE
    /\ UNCHANGED <<now, fsVars, syncVars, watcher, subs, notify, pendingSyncs,
                   procs, done, touched, burst, stopped, otherSpecVars>>

\* The restart callback: await this.stopWatching(); await this.startWatching().
FireRestart(t) ==
    /\ t \in timers /\ t.kind = "restart" /\ Due(t)
    /\ StopHead("restart", timers \ {t})
    /\ rets' = {} /\ fired' = {}
    /\ UNCHANGED <<now, fsVars, syncVars, errors, done, touched, otherSpecVars>>

\* ----------------------------------------------------------- environment
Tick ==
    /\ now' = now + 1
    /\ rets' = {} /\ fired' = {} /\ stopRet' = FALSE
    /\ UNCHANGED <<fsVars, syncVars, watchVars, done, touched, burst, stopped,
                   otherSpecVars>>

\* The log writer creates the file or appends one line; every open
\* subscription will report it.
WriteSource(p, line) ==
    /\ src' = [src EXCEPT ![p] = [exists |-> TRUE, data |-> Append(@.data, line),
                                  mtime |-> now]]
    /\ notify' = notify \cup {<<h, p>> : h \in subs}
    /\ touched' = [touched EXCEPT ![p] = [ret |-> TRUE, stamp |-> TRUE]]
    /\ rets' = {} /\ fired' = {} /\ stopRet' = FALSE
    /\ UNCHANGED <<now, copy, meta, dirs, syncVars, watcher, subs, pendingSyncs,
                   timers, procs, errors, done, burst, stopped, otherSpecVars>>

\* The settings tab: the user types a source path or clears the field; the
\* value is stored and saved, the engine is not told.
SetPath(value) ==
    /\ procs.loaded
    /\ settings.claudeProjectsPath # value
    /\ settings' = [settings EXCEPT !.claudeProjectsPath = value]
    /\ rets' = {} /\ fired' = {} /\ stopRet' = FALSE
    /\ UNCHANGED <<now, fsVars, syncVars, watchVars, done, touched, burst, stopped,
                   oracle, bat, fn>>

\* ------------------------------------------------------------------ Spec
NoOracle == [src |-> NoFile, meta |-> NoMeta, asked |-> FALSE, answer |-> FALSE]
NoBatch == [pc |-> "off"]

DefaultSettings == WithPath(TRUE, TRUE)

\* The state after new ContextSyncer(plugin), with the given settings loaded.
Constructed(st, files) ==
    /\ settings = st
    /\ now = 0
    /\ src = files
    /\ copy = [p \in Paths |-> NoCopy]
    /\ meta = [p \in Paths |-> NoMeta]
    /\ dirs = {}
    /\ lastSyncTime = 0
    /\ watcher = 0
    /\ subs = {}
    /\ notify = {}
    /\ pendingSyncs = [p \in Paths |-> 0]
    /\ timers = {}
    /\ syncInProgress = {}
    /\ calls = {}
    /\ bulk = IdleBulk
    /\ procs = [loaded |-> FALSE, initd |-> FALSE, init |-> 0, stop |-> 0, restart |-> 0,
                start |-> 0, off |-> FALSE]
    /\ errors = 0
    /\ rets = {}
    /\ done = [p \in Paths |-> "none"]
    /\ touched = [p \in Paths |-> [ret |-> FALSE, stamp |-> FALSE]]
    /\ fired = {}
    /\ burst = [p \in Paths |-> NoBurst]
    /\ stopped = {}
    /\ stopRet = FALSE

NoLogs == [p \in Paths |-> NoFile]

\* The variables of OracleSpec, BatchSpec and the pure-function
\* specifications, unused elsewhere.
NoCall == [f |-> "none"]
Unused == oracle = NoOracle /\ bat = NoBatch /\ fn = NoCall

Init == Constructed(DefaultSettings, NoLogs) /\ Unused

\* The sync pipeline: the continuations of the running syncSingleFile calls.
Pipeline ==
    \/ \E c \in calls : ShouldSyncStep(c)
    \/ \E c \in calls : ParseStep(c)
    \/ \E c \in calls : StampStep(c)
    \/ \E c \in calls : MkdirStep(c)
    \/ \E c \in calls : ReadStep(c)
    \/ \E c \in calls : WriteCopyStep(c)
    \/ \E c \in calls : WriteMetaStep(c)
    \/ \E c \in calls : SaveStep(c)

Bulk ==
    \/ ManualSync
    \/ BulkDiscover
    \/ BulkBatchDone
    \/ BulkReturn

\* The engine with the default settings while its subscription is healthy:
\* debounced watch-triggered syncs and bulk syncs of one well-formed log.
Next ==
    \/ now < MaxTime /\ Tick
    \/ Len(src["p1"].data) < MaxLines /\ WriteSource("p1", "entry")
    \/ Initialize
    \/ StartResume("init")
    \/ \E e \in notify : OnFsEvent(e[1], e[2])
    \/ \E t \in timers : FireDebounce(t)
    \/ \E t \in timers : FireStartup(t)
    \/ Bulk
    \/ Pipeline

Spec == Init /\ [][Next]_vars

\* The engine with auto-sync switched off: startup and manual bulk syncs of
\* one log that grows by well-formed and malformed lines.
PipelineInit ==
    Constructed(WithPath(FALSE, TRUE), NoLogs) /\ Unused

PipelineNext ==
    \/ now < MaxTime /\ Tick
    \/ \E line \in LineKinds : Len(src["p1"].data) < MaxLines /\ WriteSource("p1", line)
    \/ Initialize
    \/ \E t \in timers : FireStartup(t)
    \/ Bulk
    \/ Pipeline

PipelineSpec == PipelineInit /\ [][PipelineNext]_vars

\* The engine with auto-sync and the startup sync switched off, over two logs
\* that exist when the plugin loads: manual bulk syncs.
OneEntry == [exists |-> TRUE, data |-> <<"entry">>, mtime |-> 0]

PairInit ==
    /\ Constructed(WithPath(FALSE, FALSE), [p \in Paths |-> OneEntry])
    /\ Unused

PairNext ==
    \/ Initialize
    \/ Bulk
    \/ Pipeline

PairSpec == PairInit /\ [][PairNext]_vars
\* ------------------------------------------------------------- WatchSpec
\* The engine with auto-sync on and the startup sync off: the subscription is
\* created, reports events and errors, is stopped by the host and restarted
\* by the recovery timer, while one log grows.
WatchInit ==
    Constructed(WithPath(TRUE, FALSE), NoLogs) /\ Unused

\* chokidar emits 'error' on an open subscription.  An error is delivered
\* only while the clock can still reach the restart it schedules.
ErrorEvent ==
    \E h \in subs :
        /\ errors < MaxErrors
        /\ now + RestartDelay <= WatchMaxTime
        /\ WatchError(h)

\* What the engine does by itself while it watches.
Watching ==
    \/ Initialize
    \/ StartResume("init")
    \/ StartResume("start")
    \/ StopResume("restart")
    \/ \E e \in notify : OnFsEvent(e[1], e[2])
    \/ \E t \in timers : FireDebounce(t)
    \/ \E t \in timers : FireRestart(t)
    \/ Pipeline

WatchEnv ==
    \/ now < WatchMaxTime /\ Tick
    \/ Len(src["p1"].data) < MaxLines /\ WriteSource("p1", "entry")
    \/ ErrorEvent

WatchNext ==
    \/ WatchEnv
    \/ Watching
    \/ HostStop
    \/ StopResume("stop")

WatchSpec == WatchInit /\ [][WatchNext]_vars

\* The host leaves auto-sync on.  The event loop runs every due timer and
\* every continuation whose promise has settled, and time passes.
LiveNext ==
    \/ WatchEnv
    \/ Watching

LiveSpec ==
    /\ WatchInit
    /\ [][LiveNext]_vars
    /\ WF_vars(now < WatchMaxTime /\ Tick)
    /\ WF_vars(\E t \in timers : FireRestart(t))
    /\ WF_vars(StopResume("restart"))
    /\ WF_vars(StartResume("start"))

\* ---------------------------------------------------------- StopLiveSpec
\* The engine watching one log that grows while the host switches auto-sync
\* off, with the fairness the event loop gives to running calls: every call
\* of syncSingleFile goes on after its await.
StopLiveNext ==
    \/ now < MaxTime /\ Tick
    \/ Len(src["p1"].data) < MaxLines /\ WriteSource("p1", "entry")
    \/ Initialize
    \/ StartResume("init")
    \/ \E e \in notify : OnFsEvent(e[1], e[2])
    \/ \E t \in timers : FireDebounce(t)
    \/ HostStop
    \/ StopResume("stop")
    \/ Pipeline

StopLiveSpec == WatchInit /\ [][StopLiveNext]_vars /\ WF_vars(Pipeline)

\* ---------------------------------------------------------- SyncLiveSpec
\* The engine watching one log that grows, with every file operation of a
\* sync succeeding and with the fairness the event loop gives: chokidar
\* delivers its events, time passes while a timer waits, due timers run, and
\* every call goes on after its await.
Healthy == \A r \in rets' : r.result # CatchError

TimerWaits == \E t \in timers : ~Due(t)

SyncLiveNext ==
    \/ (now < MaxTime \/ TimerWaits) /\ Tick
    \/ Len(src["p1"].data) < MaxLines /\ WriteSource("p1", "entry")
    \/ Initialize
    \/ StartResume("init")
    \/ \E e \in notify : OnFsEvent(e[1], e[2])
    \/ \E t \in timers : FireDebounce(t)
    \/ Pipeline /\ Healthy

SyncLiveSpec ==
    /\ WatchInit
    /\ [][SyncLiveNext]_vars
    /\ WF_vars(TimerWaits /\ Tick)
    /\ WF_vars(\E e \in notify : OnFsEvent(e[1], e[2]))
    /\ WF_vars(\E t \in timers : FireDebounce(t))
    /\ WF_vars(Pipeline /\ Healthy)

\* ---------------------------------------------------------- DebounceSpec
\* The engine watching two logs that both grow, with the host switching
\* auto-sync off: events of the two paths arm, re-arm and fire their timers
\* side by side, and stopWatching clears them.
DebounceNext ==
    \/ now < MaxTime /\ Tick
    \/ \E p \in Paths : Len(src[p].data) < MaxLines /\ WriteSource(p, "entry")
    \/ Initialize
    \/ StartResume("init")
    \/ \E e \in notify : OnFsEvent(e[1], e[2])
    \/ \E t \in timers : FireDebounce(t)
    \/ HostStop
    \/ StopResume("stop")
    \/ Pipeline /\ Healthy

DebounceSpec == WatchInit /\ [][DebounceNext]_vars

\* ----------------------------------------------------------- RecoverSpec
\* The engine watching one log that grows while its subscription fails and
\* is restarted, with every file operation of a sync succeeding and with the
\* fairness the event loop gives: events are delivered, time passes while a
\* timer waits, due timers run, every continuation goes on.
NoTimerDue == \A t \in timers : ~Due(t)

RecoverNext ==
    \/ (now < WatchMaxTime \/ TimerWaits) /\ NoTimerDue /\ Tick
    \/ Len(src["p1"].data) < MaxLines /\ WriteSource("p1", "entry")
    \/ ErrorEvent
    \/ Initialize
    \/ StartResume("init")
    \/ StartResume("start")
    \/ StopResume("restart")
    \/ \E e \in notify : OnFsEvent(e[1], e[2])
    \/ \E t \in timers : FireDebounce(t)
    \/ \E t \in timers : FireRestart(t)
    \/ Pipeline /\ Healthy

RecoverSpec ==
    /\ WatchInit
    /\ [][RecoverNext]_vars
    /\ WF_vars(TimerWaits /\ NoTimerDue /\ Tick)
    /\ WF_vars(\E e \in notify : OnFsEvent(e[1], e[2]))
    /\ WF_vars(\E t \in timers : FireDebounce(t))
    /\ WF_vars(\E t \in timers : FireRestart(t))
    /\ WF_vars(StopResume("restart"))
    /\ WF_vars(StartResume("start"))
    /\ WF_vars(Pipeline /\ Healthy)

\* ------------------------------------------------------------- OrderSpec
\* PipelineSpec over a destination that lies in a folder other devices sync
\* into: a copy and its sidecar may arrive there for a log this engine has
\* not synced.
SharedStoreDelivers(p, m) ==
    /\ meta[p].kind = "absent" /\ ~copy[p].exists
    /\ \A c \in calls : c.path # p
    /\ meta' = [meta EXCEPT ![p] = m]
    /\ copy' = [copy EXCEPT ![p] = [exists |-> TRUE, data |-> <<"entry">>]]
    /\ dirs' = dirs \cup {p}
    /\ rets' = {} /\ fired' = {} /\ stopRet' = FALSE
    /\ UNCHANGED <<now, src, syncVars, watchVars, done, touched, burst, stopped,
                   otherSpecVars>>

OrderNext ==
    \/ PipelineNext
    \/ \E t \in 0..MaxTime : SharedStoreDelivers("p1", generateMetadata(<<"entry">>, t))

OrderSpec == PipelineInit /\ [][OrderNext]_vars

\* -------------------------------------------------------------- DirsSpec
\* The engine watching two logs that exist when the plugin loads, the first
\* of which grows, under a fixed set of project directories whose readdir
\* fails: manual bulk syncs meet watch-triggered syncs of the first log.
DirsInit ==
    /\ Constructed(WithPath(TRUE, FALSE), [p \in Paths |-> OneEntry])
    /\ oracle = NoOracle /\ bat = NoBatch
    /\ fn \in {[f |-> "dirs", unreadable |-> U] : U \in SUBSET Paths}

\* findAllJsonlFiles over the directories as they are; the source root itself
\* can be read.
DirsDiscover ==
    /\ BulkDiscover
    /\ bulk'.pc = "batch" => bulk'.files = findAllJsonlFiles(fn.unreadable)
    /\ bulk'.pc = "done" => Len(findAllJsonlFiles(fn.unreadable)) = 0

DirsNext ==
    \/ TimerWaits /\ NoTimerDue /\ Tick
    \/ Len(src["p1"].data) < MaxLines /\ WriteSource("p1", "entry")
    \/ Initialize
    \/ StartResume("init")
    \/ \E e \in notify : OnFsEvent(e[1], e[2])
    \/ \E t \in timers : FireDebounce(t)
    \/ ManualSync
    \/ DirsDiscover
    \/ BulkBatchDone
    \/ BulkReturn
    \/ Pipeline

DirsSpec == DirsInit /\ [][DirsNext]_vars

\* ------------------------------------------------------------ ConfigSpec
\* The engine of a plugin that loads with or without a source path, over one
\* log that exists: the user sets and clears the path, syncs by hand, the
\* startup sync runs, the subscription fails and is restarted.
ConfigInit ==
    /\ \E path \in {"", SomePath} :
        Constructed([WithPath(TRUE, TRUE) EXCEPT !.claudeProjectsPath = path],
                    [NoLogs EXCEPT !["p1"] = OneEntry])
    /\ Unused

ConfigNext ==
    \/ now < WatchMaxTime /\ Tick
    \/ \E path \in {"", SomePath} : SetPath(path)
    \/ Initialize
    \/ StartResume("init")
    \/ StartResume("start")
    \/ ErrorEvent
    \/ \E t \in timers : FireRestart(t)
    \/ StopResume("restart")
    \/ \E t \in timers : FireStartup(t)
    \/ Bulk
    \/ Pipeline

ConfigSpec == ConfigInit /\ [][ConfigNext]_vars

\* ----------------------------------------------------------- RestartSpec
\* The life cycle of the subscription alone while the host leaves auto-sync
\* on: start, and restarts after a burst of watcher errors, with no log
\* written.
ErrorBurst ==
    \E h \in subs :
        /\ errors < MaxBurst
        /\ now + RestartDelay <= WatchMaxTime
        /\ WatchError(h)

RestartNext ==
    \/ now < WatchMaxTime /\ Tick
    \/ ErrorBurst
    \/ Initialize
    \/ StartResume("init")
    \/ StartResume("start")
    \/ StopResume("restart")
    \/ \E t \in timers : FireRestart(t)

RestartSpec == WatchInit /\ [][RestartNext]_vars

\* ------------------------------------------------------------ OracleSpec
\* shouldSync asked about one source file and one sidecar, in every
\* combination of their states.
SourceStates ==
    {NoFile} \cup {[exists |-> TRUE, data |-> <<"entry">>, mtime |-> m] : m \in 0..MaxStamp}

SidecarStates ==
    {[kind |-> k, syncedAt |-> 0, messageCount |-> 0] : k \in MetaKinds \ {"valid"}}
    \cup {generateMetadata(<<"entry">>, t) : t \in 0..MaxStamp}

engineVars == <<now, src, copy, meta, dirs, lastSyncTime, settings, watcher, subs,
                notify, pendingSyncs, timers, syncInProgress, calls, bulk, procs,
                errors, rets, done, touched, fired, burst, stopped, stopRet>>

OracleInit ==
    /\ Constructed(DefaultSettings, NoLogs)
    /\ bat = NoBatch
    /\ fn = NoCall
    /\ \E s \in SourceStates, m \in SidecarStates :
        oracle = [src |-> s, meta |-> m, asked |-> FALSE, answer |-> FALSE]

\* await this.shouldSync(filePath, metaFile)
OracleAsk ==
    /\ ~oracle.asked
    /\ oracle' = [oracle EXCEPT !.asked = TRUE,
                                !.answer = shouldSync(oracle.src, oracle.meta)]
    /\ UNCHANGED <<engineVars, bat, fn>>

\* The log writer modifies the source.
OracleTouch ==
    /\ oracle.src.exists
    /\ oracle.src.mtime < MaxStamp
    /\ oracle' = [oracle EXCEPT !.src.mtime = @ + 1, !.asked = FALSE, !.answer = FALSE]
    /\ UNCHANGED <<engineVars, bat, fn>>

OracleNext ==
    \/ OracleAsk
    \/ OracleTouch

OracleSpec == OracleInit /\ [][OracleNext]_vars

\* ------------------------------------------------------------- ParseSpec
\* What one sync derives from a log: the parsed messages, the sidecar and
\* the copy, for every log of up to MaxParseLines lines.
ParseLines == LineKinds \cup {"summary"}

SeqsUpTo(S, n) == UNION {[1..k -> S] : k \in 0..n}

ParseInit ==
    /\ Constructed(DefaultSettings, NoLogs)
    /\ oracle = NoOracle
    /\ bat = NoBatch
    /\ \E data \in SeqsUpTo(ParseLines, MaxParseLines) :
        fn = [f |-> "parse", in |-> data, applied |-> FALSE]

\* parseJsonlFile, generateMetadata and the copy, as syncSingleFile chains
\* them (lines 263, 276, 282-285).
ParseApply ==
    /\ fn.f = "parse" /\ ~fn.applied
    /\ fn' = [f |-> "parse", in |-> fn.in, applied |-> TRUE,
              out |-> [messages |-> parseJsonlFile(fn.in),
                       meta |-> generateMetadata(parseJsonlFile(fn.in), now),
                       copy |-> CopyBytes(fn.in)]]
    /\ UNCHANGED <<engineVars, oracle, bat>>

ParseSpec == ParseInit /\ [][ParseApply]_vars

\* ---------------------------------------------- generateMetadata: timestamps
\* m.timestamp of a decoded line is whatever JSON value the line gives the
\* field: a number, nothing (undefined), null, or text that is no number.
Number(n) == [kind |-> "number", val |-> n]
NaN == [kind |-> "NaN", val |-> 0]
TimestampValues ==
    {Number(n) : n \in 0..MaxStamp}
    \cup {[kind |-> k, val |-> 0] : k \in {"undefined", "null", "text"}}

\* messages.map(m => m.timestamp).filter(t => t !== undefined && t !== null)
Timestamps(messages) ==
    SelectSeq([i \in DOMAIN messages |-> messages[i].timestamp],
              LAMBDA t : t.kind \notin {"undefined", "null"})

\* Math.min(...timestamps) and Math.max(...timestamps) of at least one
\* argument: NaN as soon as one argument does not convert to a number.
MathMin(ts) ==
    IF \E i \in DOMAIN ts : ts[i].kind # "number" THEN NaN
    ELSE Number(CHOOSE v \in {ts[i].val : i \in DOMAIN ts} :
                    \A i \in DOMAIN ts : v <= ts[i].val)
MathMax(ts) ==
    IF \E i \in DOMAIN ts : ts[i].kind # "number" THEN NaN
    ELSE Number(CHOOSE v \in {ts[i].val : i \in DOMAIN ts} :
                    \A i \in DOMAIN ts : v >= ts[i].val)

\* The sidecar fields generateMetadata derives from the timestamps.
TimestampFields(messages, t) ==
    LET timestamps == Timestamps(messages)
    IN [messageCount |-> Len(messages),
        firstTimestamp |-> IF Len(timestamps) > 0 THEN MathMin(timestamps) ELSE Number(t),
        lastTimestamp |-> IF Len(timestamps) > 0 THEN MathMax(timestamps) ELSE Number(t),
        syncedAt |-> t]

\* ----------------------------------------------------------- MetadataSpec
\* generateMetadata applied, at any time, to every sequence of up to
\* MaxParseLines decoded lines.
MetadataInit ==
    /\ Constructed(DefaultSettings, NoLogs)
    /\ oracle = NoOracle
    /\ bat = NoBatch
    /\ \E ts \in SeqsUpTo(TimestampValues, MaxParseLines) :
        fn = [f |-> "metadata", in |-> [i \in DOMAIN ts |-> [timestamp |-> ts[i]]],
              applied |-> FALSE]

MetadataApply ==
    /\ fn.f = "metadata" /\ ~fn.applied
    /\ fn' = [fn EXCEPT !.applied = TRUE] @@ [out |-> TimestampFields(fn.in, now)]
    /\ UNCHANGED <<engineVars, oracle, bat>>

MetadataNext ==
    \/ now < MaxTime /\ fn.f = "metadata" /\ ~fn.applied /\ Tick
    \/ MetadataApply

MetadataSpec == MetadataInit /\ [][MetadataNext]_vars

\* ---------------------------------------------------------- sanitizeFileName
\* A string is the sequence of its characters.
\* /[<>:"|?*]/
InvalidChars == {"<", ">", ":", "\"", "|", "?", "*"}
\* /\s/ (and the characters trim() removes)
Whitespace == {" ", "\t", "\n"}

\* .replace(/[<>:"|?*]/g, '-')
ReplaceInvalid(name) ==
    [i \in 1..Len(name) |-> IF name[i] \in InvalidChars THEN "-" ELSE name[i]]

\* .replace(/\s+/g, ' '): a whitespace character that follows another one
\* is dropped, the first of a run becomes one space.
CollapseWhitespace(str) ==
    LET marked == [i \in 1..Len(str) |->
                      [ch |-> str[i], inRun |-> i > 1 /\ str[i - 1] \in Whitespace]]
        kept == SelectSeq(marked, LAMBDA q : q.ch \notin Whitespace \/ ~q.inRun)
    IN [j \in 1..Len(kept) |-> IF kept[j].ch \in Whitespace THEN " " ELSE kept[j].ch]

\* .trim()
Trim(str) ==
    LET solid == {i \in DOMAIN str : str[i] \notin Whitespace}
    IN IF solid = {} THEN <<>>
       ELSE SubSeq(str, CHOOSE i \in solid : \A k \in solid : i <= k,
                        CHOOSE i \in solid : \A k \in solid : i >= k)

\* .substring(0, 255)
Truncate(str) == SubSeq(str, 1, Min(Len(str), NameLimit))

\* sanitizeFileName: replace, collapse, trim, truncate, in this order.
sanitizeFileName(name) == Truncate(Trim(CollapseWhitespace(ReplaceInvalid(name))))

\* ----------------------------------------------------------- SanitizeSpec
\* sanitizeFileName applied to short names and to names around the length
\* limit, and applied again to its own output.
SanitizeChars == {"p", " ", "\t", ":", "*"}
Letters(n) == [i \in 1..n |-> "p"]
PadLengths == {0, NameLimit - 2, NameLimit - 1, NameLimit}

SanitizeInit ==
    /\ Constructed(DefaultSettings, NoLogs)
    /\ oracle = NoOracle
    /\ bat = NoBatch
    /\ \E n \in PadLengths, tail \in SeqsUpTo(SanitizeChars, MaxTail) :
        fn = [f |-> "sanitize", in |-> Letters(n) \o tail, applied |-> FALSE]

SanitizeApply ==
    /\ fn.f = "sanitize" /\ ~fn.applied
    /\ fn' = [f |-> "sanitize", in |-> fn.in, applied |-> TRUE,
              out |-> sanitizeFileName(fn.in),
              again |-> sanitizeFileName(sanitizeFileName(fn.in))]
    /\ UNCHANGED <<engineVars, oracle, bat>>

SanitizeSpec == SanitizeInit /\ [][SanitizeApply]_vars

\* ---------------------------------------------------- decodeProjectName
\* The hexadecimal digits; digit k of the sequence has the value (k - 1) % 16
\* for the first sixteen, and 10..15 for the six lower-case letters.
HexDigits == <<"0", "1", "2", "3", "4", "5", "6", "7", "8", "9",
               "A", "B", "C", "D", "E", "F", "a", "b", "c", "d", "e", "f">>

\* The value of a hexadecimal digit, -1 for any other character.
HexValue(ch) ==
    IF \E k \in DOMAIN HexDigits : HexDigits[k] = ch
    THEN LET k == CHOOSE k \in DOMAIN HexDigits : HexDigits[k] = ch
         IN IF k <= 16 THEN k - 1 ELSE k - 7
    ELSE -1

\* The byte the escape "%xy" at position i of s stands for, -1 when there
\* is no complete escape at that position.
ByteAt(s, i) ==
    IF i + 2 <= Len(s) /\ s[i] = "%" /\ HexValue(s[i + 1]) >= 0 /\ HexValue(s[i + 2]) >= 0
    THEN 16 * HexValue(s[i + 1]) + HexValue(s[i + 2])
    ELSE -1

\* The characters U+0020..U+007E, the apostrophe and the grave accent by
\* their numbers.
Printable ==
    <<" ", "!", "\"", "#", "$", "%", "&", "U+39", "(", ")", "*", "+", ",", "-", ".", "/",
      "0", "1", "2", "3", "4", "5", "6", "7", "8", "9", ":", ";", "<", "=", ">", "?",
      "@", "A", "B", "C", "D", "E", "F", "G", "H", "I", "J", "K", "L", "M", "N", "O",
      "P", "Q", "R", "S", "T", "U", "V", "W", "X", "Y", "Z", "[", "\\", "]", "^", "_",
      "U+96", "a", "b", "c", "d", "e", "f", "g", "h", "i", "j", "k", "l", "m", "n", "o",
      "p", "q", "r", "s", "t", "u", "v", "w", "x", "y", "z", "{", "|", "}", "~">>

\* The character of a code point: itself when printable ASCII, tab and line
\* feed by their escapes, any other one by its number.
CodePointChar(cp) ==
    IF cp \in 32..126 THEN Printable[cp - 31]
    ELSE IF cp = 9 THEN "\t"
    ELSE IF cp = 10 THEN "\n"
    ELSE "U+" \o ToString(cp)

\* The number of bytes of the UTF-8 sequence a lead byte announces, 0 for a
\* byte that cannot lead one.
SequenceLength(b) ==
    IF b < 128 THEN 1
    ELSE IF b \in 192..223 THEN 2
    ELSE IF b \in 224..239 THEN 3
    ELSE IF b \in 240..247 THEN 4
    ELSE 0

\* The smallest code point whose UTF-8 encoding has n bytes.
MinCodePoint(n) == IF n = 1 THEN 0 ELSE IF n = 2 THEN 128 ELSE IF n = 3 THEN 2048 ELSE 65536

\* The code point of the UTF-8 sequence of n escapes at position i of s, -1
\* when the escapes are not a valid encoding of a code point.
CodePointAt(s, i, n) ==
    LET lead == ByteAt(s, i)
        cont == [k \in 1..(n - 1) |-> ByteAt(s, i + 3 * k)]
        bits == IF n = 1 THEN lead
                ELSE IF n = 2 THEN lead - 192
                ELSE IF n = 3 THEN lead - 224
                ELSE lead - 240
        cp == IF n = 1 THEN bits
              ELSE IF n = 2 THEN 64 * bits + (cont[1] - 128)
              ELSE IF n = 3 THEN 4096 * bits + 64 * (cont[1] - 128) + (cont[2] - 128)
              ELSE 262144 * bits + 4096 * (cont[1] - 128) + 64 * (cont[2] - 128)
                       + (cont[3] - 128)
    IN IF /\ n > 0
          /\ \A k \in 1..(n - 1) : cont[k] \in 128..191
          /\ cp >= MinCodePoint(n)
          /\ cp \notin 55296..57343
          /\ cp <= 1114111
       THEN cp
       ELSE -1

\* decodeURIComponent from position i on: [ok, text], ok FALSE for the
\* URIError of an escape that is incomplete or not valid UTF-8.
RECURSIVE DecodeFrom(_, _)
DecodeFrom(s, i) ==
    IF i > Len(s) THEN [ok |-> TRUE, text |-> <<>>]
    ELSE IF s[i] # "%"
    THEN LET rest == DecodeFrom(s, i + 1)
         IN [ok |-> rest.ok, text |-> <<s[i]>> \o rest.text]
    ELSE LET lead == ByteAt(s, i)
             n == IF lead < 0 THEN 0 ELSE SequenceLength(lead)
             cp == IF n = 0 THEN -1 ELSE CodePointAt(s, i, n)
         IN IF cp < 0 THEN [ok |-> FALSE, text |-> <<>>]
            ELSE LET rest == DecodeFrom(s, i + 3 * n)
                 IN [ok |-> rest.ok, text |-> <<CodePointChar(cp)>> \o rest.text]

decodeURIComponent(encoded) ==
    LET r == DecodeFrom(encoded, 1)
    IN IF r.ok THEN r ELSE [ok |-> FALSE, text |-> <<>>]

\* [/\\]
Separators == {"/", "\\"}

\* The mutant of StripLeading: leading separators are kept.
KeepLeadingMutant(str) == str

\* .replace(/^[/\\]+/, empty)
RECURSIVE StripLeading(_)
StripLeading(str) ==
    IF str # <<>> /\ Head(str) \in Separators THEN StripLeading(Tail(str)) ELSE str

\* .replace(/[/\\]+/g, space dash space)
RECURSIVE ReplaceRuns(_)
ReplaceRuns(str) ==
    IF str = <<>> THEN <<>>
    ELSE IF Head(str) \in Separators
    THEN IF Len(str) > 1 /\ str[2] \in Separators
         THEN ReplaceRuns(Tail(str))
         ELSE <<" ", "-", " ">> \o ReplaceRuns(Tail(str))
    ELSE <<Head(str)>> \o ReplaceRuns(Tail(str))

\* The name for an empty result.
UnknownProject ==
    <<"U", "n", "k", "n", "o", "w", "n", " ", "P", "r", "o", "j", "e", "c", "t">>

\* The mutant of DecodeFallback: the URIError leaves decodeProjectName.
DecodeRethrowMutant(encoded) == [thrown |-> TRUE, warned |-> FALSE, name |-> <<>>]

\* The catch block: a warning, and the encoded name is returned.
DecodeFallback(encoded) == [thrown |-> FALSE, warned |-> TRUE, name |-> encoded]

\* The value undefined, which is no string, and the conversion to a string
\* that decodeURIComponent applies to its argument.
undefined == <<"(undefined)">>
StringOf(value) ==
    IF value = undefined THEN <<"u", "n", "d", "e", "f", "i", "n", "e", "d">> ELSE value

\* decodeProjectName: [thrown, warned, name].
decodeProjectName(encoded) ==
    LET decoded == decodeURIComponent(StringOf(encoded))
        cleaned == ReplaceRuns(StripLeading(decoded.text))
    IN IF decoded.ok
       THEN [thrown |-> FALSE, warned |-> FALSE,
             name |-> IF cleaned = <<>> THEN UnknownProject ELSE cleaned]
       ELSE DecodeFallback(encoded)

\* -------------------------------------------------------------- DecodeSpec
\* decodeProjectName applied to the segments made of at most MaxTokens of
\* these pieces: a letter, the two separators, their escapes in both cases of
\* the hexadecimal digits, the escape of a two-byte character, and escapes
\* that are cut short, not hexadecimal, or not UTF-8.
PlainTokens ==
    {<<"p">>, <<"/">>, <<"\\">>, <<"%", "2", "F">>, <<"%", "2", "f">>,
     <<"%", "5", "C">>, <<"%", "C", "3", "%", "A", "9">>}
BadTokens ==
    {<<"%">>, <<"%", "2">>, <<"%", "p", "p">>, <<"%", "F", "F">>, <<"%", "C", "3">>,
     <<"%", "C", "0", "%", "A", "F">>}

RECURSIVE Concat(_)
Concat(parts) == IF parts = <<>> THEN <<>> ELSE Head(parts) \o Concat(Tail(parts))

DecodeInit ==
    /\ Constructed(DefaultSettings, NoLogs)
    /\ oracle = NoOracle
    /\ bat = NoBatch
    /\ \E parts \in SeqsUpTo(PlainTokens \cup BadTokens, MaxTokens) :
        fn = [f |-> "decode", parts |-> parts, in |-> Concat(parts), applied |-> FALSE]

DecodeApply ==
    /\ fn.f = "decode" /\ ~fn.applied
    /\ fn' = [fn EXCEPT !.applied = TRUE] @@ [out |-> decodeProjectName(fn.in)]
    /\ UNCHANGED <<engineVars, oracle, bat>>

DecodeSpec == DecodeInit /\ [][DecodeApply]_vars

\* ------------------------------------------- parseClaudePath, getTargetPaths
\* A source path is its parts <<projects directory, encoded project name,
\* file name>>, a file name its pieces (the extension is one piece).
\* fileName.replace(.jsonl, empty): the first occurrence is removed.
RemoveFirst(name, piece) ==
    IF \E i \in DOMAIN name : name[i] = piece
    THEN LET i == CHOOSE i \in DOMAIN name :
                    name[i] = piece /\ \A k \in 1..(i - 1) : name[k] # piece
         IN SubSeq(name, 1, i - 1) \o SubSeq(name, i + 1, Len(name))
    ELSE name

\* parts[i] of a JavaScript array (indices from 1 here): undefined outside it.
At(parts, i) == IF i \in DOMAIN parts THEN parts[i] ELSE undefined

\* parseClaudePath: the last two parts of the path; filePath is the result of
\* normalized.split(path.sep), which has at least one part.
parseClaudePath(filePath) ==
    LET fileName == At(filePath, Len(filePath))
        encodedProjectName == At(filePath, Len(filePath) - 1)
    IN [encodedProjectName |-> encodedProjectName,
        decodedProjectName |-> decodeProjectName(encodedProjectName).name,
        sessionId |-> RemoveFirst(fileName, ".jsonl"),
        fullPath |-> filePath]

\* path.join of names that hold no separator: empty names are dropped.
Join(names) == SelectSeq(names, LAMBDA n : n # <<>>)

\* getTargetPaths, below the vault and the storage path.
getTargetPaths(parsedPath) ==
    LET sanitizedProjectName == sanitizeFileName(parsedPath.decodedProjectName)
        projectDir == Join(<<sanitizedProjectName>>)
    IN [projectDir |-> projectDir,
        jsonlFile |-> Join(projectDir \o <<parsedPath.sessionId \o <<".jsonl">>>>),
        metaFile |-> Join(projectDir \o <<parsedPath.sessionId \o <<".meta.json">>>>)]

\* -------------------------------------------------------------- TargetSpec
\* The destinations of two source paths of one projects directory: the
\* project names are made of at most MaxSegment pieces, the files are two
\* sessions.
SegmentTokens == {<<"p">>, <<"%", "2", "F">>, <<"%", "5", "C">>, <<":">>, <<"%">>}
FileNames == {<<"s", ".jsonl">>, <<"t", ".jsonl">>}
SourcePaths ==
    {<<"projects", Concat(parts), file>> :
        parts \in SeqsUpTo(SegmentTokens, MaxSegment) \ {<<>>}, file \in FileNames}

TargetInit ==
    /\ Constructed(DefaultSettings, NoLogs)
    /\ oracle = NoOracle
    /\ bat = NoBatch
    /\ \E a \in SourcePaths, b \in SourcePaths :
        fn = [f |-> "target", in |-> <<a, b>>, applied |-> FALSE]

TargetApply ==
    /\ fn.f = "target" /\ ~fn.applied
    /\ fn' = [fn EXCEPT !.applied = TRUE] @@
              [out |-> [k \in 1..2 |-> getTargetPaths(parseClaudePath(fn.in[k]))]]
    /\ UNCHANGED <<engineVars, oracle, bat>>

TargetSpec == TargetInit /\ [][TargetApply]_vars

\* ---------------------------------------------------------- ShortPathSpec
\* One call of syncSingleFile into an empty destination, on a path of one,
\* two or three parts; a path that starts at the root has an empty first
\* part.  found: a log with one entry lies where the process resolves the
\* path.  The call is the record [path, found, pc] and, once made, raised
\* (parseClaudePath or getTargetPaths threw), parsed, target, result, wrote.
ShortSegments == {Concat(parts) : parts \in SeqsUpTo(SegmentTokens, MaxSegment)}
ShortPaths ==
    {<<file>> : file \in FileNames}
    \cup {<<seg, file>> : seg \in ShortSegments, file \in FileNames}
    \cup {<<"projects", seg, file>> : seg \in ShortSegments \ {<<>>}, file \in FileNames}

ShortInit ==
    /\ Constructed(DefaultSettings, NoLogs)
    /\ oracle = NoOracle
    /\ bat = NoBatch
    /\ \E path \in ShortPaths, found \in BOOLEAN :
        fn = [f |-> "short", path |-> path, found |-> found, pc |-> "call"]

\* syncSingleFile up to its first await: parseClaudePath, getTargetPaths.
ShortCall ==
    /\ fn.f = "short" /\ fn.pc = "call"
    /\ \E parsedPath \in {parseClaudePath(fn.path)} :
        \E raised \in {decodeProjectName(parsedPath.encodedProjectName).thrown} :
            fn' = [fn EXCEPT !.pc = IF raised THEN "done" ELSE "shouldSync"] @@
                  [raised |-> raised, parsed |-> parsedPath,
                   target |-> getTargetPaths(parsedPath),
                   result |-> IF raised THEN CatchError ELSE NoResult, wrote |-> {}]
    /\ UNCHANGED <<engineVars, oracle, bat>>

\* await this.shouldSync: no sidecar lies at metaFile, the answer is true.
ShortShouldSync ==
    /\ fn.f = "short" /\ fn.pc = "shouldSync"
    /\ fn' = [fn EXCEPT !.pc = "parse"]
    /\ UNCHANGED <<engineVars, oracle, bat>>

\* await this.parseJsonlFile(filePath): the stream fails for a missing file.
ShortParse ==
    /\ fn.f = "short" /\ fn.pc = "parse"
    /\ fn' = IF fn.found THEN [fn EXCEPT !.pc = "write"]
             ELSE [fn EXCEPT !.pc = "done", !.result = CatchError]
    /\ UNCHANGED <<engineVars, oracle, bat>>

\* ensureDirectory, which may fail, then the copy, the sidecar and the save.
ShortWrite ==
    /\ fn.f = "short" /\ fn.pc = "write"
    /\ \E ok \in BOOLEAN :
        fn' = IF ok
              THEN [fn EXCEPT !.pc = "done", !.result = Written(""),
                              !.wrote = {fn.target.jsonlFile, fn.target.metaFile}]
              ELSE [fn EXCEPT !.pc = "done", !.result = CatchError]
    /\ UNCHANGED <<engineVars, oracle, bat>>

ShortNext == ShortCall \/ ShortShouldSync \/ ShortParse \/ ShortWrite

ShortPathSpec == ShortInit /\ [][ShortNext]_vars

\* ----------------------------------------------------- setup-symlink scripts
\* setup-symlink.sh and setup-symlink.ps1 as one program over the state of
\* two paths: the target the user names (vault) and the canonical source
\* root ~/.claude/projects (projects).  A run is the record
\*   [shell, pc, vault, projects, backup, exit, orig, linked]
\* with exit -1 while the script runs; orig (projects at the start) and linked
\* (the link command was reached) are history.
Shells == {"sh", "ps1"}
VaultStates == {"dir", "file", "missing"}
Absent == [kind |-> "absent", to |-> "", empty |-> TRUE]
LinkTo(t) == [kind |-> "link", to |-> t, empty |-> TRUE]
Directory(empty) == [kind |-> "dir", to |-> "", empty |-> empty]
\* A link leads to the target named ("vault"), to another directory
\* ("other") or to nothing ("gone").
ProjectsStates ==
    {Absent} \cup {LinkTo(t) : t \in {"vault", "other", "gone"}}
    \cup {Directory(e) : e \in BOOLEAN}

\* [ ! -d "$VAULT_PATH" ], Test-Path -PathType Container
AnyTargetMutant(vault) == TRUE
IsDirectory(vault) == vault = "dir"

\* [ -e "$CLAUDE_PROJECTS" ], Test-Path: links are followed.
Exists(projects) == projects.kind = "dir" \/ (projects.kind = "link" /\ projects.to # "gone")

\* set -e ends the shell script at a failing command; in PowerShell the
\* error of a cmdlet is reported and the script goes on.
OnFailure(run, next) ==
    IF run.shell = "sh" THEN [run EXCEPT !.pc = "exit", !.exit = 1]
    ELSE [run EXCEPT !.pc = next]

\* Lines 55-60 (sh), 41-47 (ps1): the target must be a directory.
Validate(run) ==
    IF ~IsDirectory(run.vault) THEN [run EXCEPT !.pc = "exit", !.exit = 1]
    ELSE [run EXCEPT !.pc = "exists"]

\* Lines 69-79 (sh), 56-69 (ps1): what is at the source root.
CheckExisting(run) ==
    IF ~Exists(run.projects) THEN [run EXCEPT !.pc = "link"]
    ELSE IF run.projects.kind = "link"
    THEN IF run.projects.to = "vault"
         THEN [run EXCEPT !.pc = "exit", !.exit = 0]
         ELSE [run EXCEPT !.pc = "askReplace"]
    ELSE [run EXCEPT !.pc = "askOption"]

\* Lines 82-87 (sh), 72-78 (ps1): replace the link?
AskReplace(run, answer) ==
    IF answer \in {"y", "Y"} THEN [run EXCEPT !.pc = "remove"]
    ELSE [run EXCEPT !.pc = "exit", !.exit = 0]

\* rm "$CLAUDE_PROJECTS", Remove-Item -Force
Remove(run, ok) ==
    IF ok THEN [run EXCEPT !.pc = "link", !.projects = Absent]
    ELSE OnFailure(run, "link")

\* Lines 98-123 (sh), 90-119 (ps1): the menu for a regular directory.
AskOption(run, option) ==
    IF option = "1" THEN [run EXCEPT !.pc = "backup"]
    ELSE IF option \in {"2", "3"} THEN [run EXCEPT !.pc = "exit", !.exit = 0]
    ELSE [run EXCEPT !.pc = "exit", !.exit = 1]

\* mv "$CLAUDE_PROJECTS" "$BACKUP_PATH", Move-Item
Backup(run, ok) ==
    IF ok THEN [run EXCEPT !.pc = "link", !.backup = run.projects, !.projects = Absent]
    ELSE OnFailure(run, "link")

\* ln -s "$VAULT_PATH" "$CLAUDE_PROJECTS" creates the link where nothing is;
\* New-Item -ItemType SymbolicLink -Force also replaces a link or an empty
\* directory that is there.  Either fails when it cannot.
Replaceable(run) ==
    \/ run.projects.kind = "absent"
    \/ run.shell = "ps1" /\ (run.projects.kind = "link" \/ run.projects.empty)

CreateLink(run, ok) ==
    IF ok /\ Replaceable(run)
    THEN [run EXCEPT !.pc = "verify", !.linked = TRUE, !.projects = LinkTo("vault")]
    ELSE [OnFailure(run, "verify") EXCEPT !.linked = TRUE]

\* Lines 136-158 (sh), 137-173 (ps1): is there a symbolic link now?
Verify(run) ==
    IF run.projects.kind = "link" /\ (run.shell = "sh" \/ Exists(run.projects))
    THEN [run EXCEPT !.pc = "exit", !.exit = 0]
    ELSE [run EXCEPT !.pc = "exit", !.exit = 1]

\* -------------------------------------------------------------- SetupSpec
\* One run of either script from every state of the two paths, with every
\* answer of the user and every command failing or not.
SetupInit ==
    /\ Constructed(DefaultSettings, NoLogs)
    /\ oracle = NoOracle
    /\ bat = NoBatch
    /\ \E shell \in Shells, vault \in VaultStates, projects \in ProjectsStates :
        fn = [f |-> "setup", shell |-> shell, pc |-> "validate", vault |-> vault,
              projects |-> projects, backup |-> Absent, exit |-> -1,
              orig |-> projects, linked |-> FALSE]

SetupStep(run) ==
    /\ fn.f = "setup"
    /\ fn' = run
    /\ UNCHANGED <<engineVars, oracle, bat>>

SetupNext ==
    \/ fn.pc = "validate" /\ SetupStep(Validate(fn))
    \/ fn.pc = "exists" /\ SetupStep(CheckExisting(fn))
    \/ fn.pc = "askReplace" /\ \E answer \in {"y", "n"} : SetupStep(AskReplace(fn, answer))
    \/ fn.pc = "remove" /\ \E ok \in BOOLEAN : SetupStep(Remove(fn, ok))
    \/ fn.pc = "askOption" /\ \E option \in {"1", "2", "3", "x"} : SetupStep(AskOption(fn, option))
    \/ fn.pc = "backup" /\ \E ok \in BOOLEAN : SetupStep(Backup(fn, ok))
    \/ fn.pc = "link" /\ \E ok \in BOOLEAN : SetupStep(CreateLink(fn, ok))
    \/ fn.pc = "verify" /\ SetupStep(Verify(fn))

SetupSpec == SetupInit /\ [][SetupNext]_vars

\* ------------------------------------------------------------ PluginSpec
\* The plugin and the engines it creates, over one log.  plugin.syncer is
\* the index of the engine the plugin refers to (0 for null); an engine is
\*   [made, watcher, pending, startup, restart, inProgress, pc]
\* with its subscription, the debounce timer of the log, the timer of its
\* startup sync, the timer of its recovery restart, its in-progress marker
\* of the log and the position of its sync of the log.
Engines == 1..MaxEngines
NoEngine == [made |-> FALSE, watcher |-> FALSE, pending |-> FALSE, startup |-> FALSE,
             restart |-> FALSE, inProgress |-> FALSE, pc |-> "idle"]

\* new ContextSyncer(plugin): watcher null, empty map, empty set.
NewEngine == [NoEngine EXCEPT !.made = TRUE]

\* stopWatching: the watcher is closed, the debounce timers are cleared.
stopWatching(e) == [e EXCEPT !.watcher = FALSE, !.pending = FALSE]

\* startWatching: nothing when this.watcher is set; chokidar.watch unless
\* fs.access fails.
startWatching(e, ok) == IF e.watcher \/ ~ok THEN e ELSE [e EXCEPT !.watcher = TRUE]

\* initialize: startWatching when enableAutoSync, the startup timer when
\* syncOnStartup.
initialize(e, st, ok) ==
    [(IF st.enableAutoSync THEN startWatching(e, ok) ELSE e)
        EXCEPT !.startup = st.syncOnStartup]

\* The head of syncSingleFile: rejected when this engine has the path in its
\* own syncInProgress, otherwise marked and started.
syncSingleFile(e) ==
    IF e.inProgress THEN e ELSE [e EXCEPT !.inProgress = TRUE, !.pc = "syncing"]

\* initializeSyncer: stop the engine the plugin refers to, then create and
\* initialize a new one.
initializeSyncer(pl, ok) ==
    LET n == Cardinality({i \in Engines : pl.engines[i].made}) + 1
        old == IF pl.syncer # 0
               THEN [pl.engines EXCEPT ![pl.syncer] = stopWatching(@)]
               ELSE pl.engines
    IN [pl EXCEPT !.syncer = n,
                  !.engines = [old EXCEPT ![n] = initialize(NewEngine, pl.settings, ok)]]

PluginInit ==
    /\ Constructed(DefaultSettings, [NoLogs EXCEPT !["p1"] = OneEntry])
    /\ oracle = NoOracle
    /\ bat = NoBatch
    /\ \E startup \in BOOLEAN :
        fn = [f |-> "plugin", syncer |-> 0, settings |-> WithPath(TRUE, startup),
              engines |-> [i \in Engines |-> NoEngine]]

PluginStep(pl) ==
    /\ fn.f = "plugin"
    /\ fn' = pl
    /\ UNCHANGED <<engineVars, oracle, bat>>

EngineStep(i, e) == PluginStep([fn EXCEPT !.engines[i] = e])

\* onload, and the auto-sync toggle switched on.
PluginLoad ==
    /\ fn.syncer = 0
    /\ \E ok \in BOOLEAN : PluginStep(initializeSyncer(fn, ok))

ToggleOn ==
    /\ fn.syncer # 0 /\ ~fn.settings.enableAutoSync
    /\ Cardinality({i \in Engines : fn.engines[i].made}) < MaxEngines
    /\ \E ok \in BOOLEAN :
        PluginStep(initializeSyncer([fn EXCEPT !.settings.enableAutoSync = TRUE], ok))

\* The auto-sync toggle switched off: plugin.syncer?.stopWatching().
ToggleOff ==
    /\ fn.syncer # 0 /\ fn.settings.enableAutoSync
    /\ PluginStep([fn EXCEPT !.settings.enableAutoSync = FALSE,
                              !.engines[fn.syncer] = stopWatching(@)])

\* Manual sync: plugin.syncer.syncAllExisting().
PluginManualSync ==
    /\ fn.syncer # 0
    /\ EngineStep(fn.syncer, syncSingleFile(fn.engines[fn.syncer]))

\* What an engine does by itself: its subscription reports an error or an
\* event, its timers fire, its sync goes on.
EngineError(i) ==
    /\ fn.engines[i].watcher /\ ~fn.engines[i].restart
    /\ EngineStep(i, [fn.engines[i] EXCEPT !.restart = TRUE])

EngineRestart(i) ==
    /\ fn.engines[i].restart
    /\ \E ok \in BOOLEAN :
        EngineStep(i, [startWatching(stopWatching(fn.engines[i]), ok) EXCEPT !.restart = FALSE])

EngineStartup(i) ==
    /\ fn.engines[i].startup
    /\ EngineStep(i, syncSingleFile([fn.engines[i] EXCEPT !.startup = FALSE]))

EngineEvent(i) ==
    /\ fn.engines[i].watcher /\ ~fn.engines[i].pending
    /\ EngineStep(i, [fn.engines[i] EXCEPT !.pending = TRUE])

EngineDebounce(i) ==
    /\ fn.engines[i].pending
    /\ EngineStep(i, syncSingleFile([fn.engines[i] EXCEPT !.pending = FALSE]))

\* syncSingleFile after its head: up to the writes, through them, and out
\* by return or catch with the marker released.
EngineSync(i) ==
    \/ /\ fn.engines[i].pc = "syncing"
       /\ EngineStep(i, [fn.engines[i] EXCEPT !.pc = "writing"])
    \/ /\ fn.engines[i].pc \in {"syncing", "writing"}
       /\ EngineStep(i, [fn.engines[i] EXCEPT !.pc = "idle", !.inProgress = FALSE])

PluginNext ==
    \/ PluginLoad
    \/ ToggleOn
    \/ ToggleOff
    \/ PluginManualSync
    \/ \E i \in Engines : fn.f = "plugin" /\ EngineError(i)
    \/ \E i \in Engines : fn.f = "plugin" /\ EngineRestart(i)
    \/ \E i \in Engines : fn.f = "plugin" /\ EngineStartup(i)
    \/ \E i \in Engines : fn.f = "plugin" /\ EngineEvent(i)
    \/ \E i \in Engines : fn.f = "plugin" /\ EngineDebounce(i)
    \/ \E i \in Engines : fn.f = "plugin" /\ EngineSync(i)

PluginSpec == PluginInit /\ [][PluginNext]_vars

\* ------------------------------------------------------------- BatchSpec
\* The batch loop of syncAllExisting over n files, the calls of
\* syncSingleFile reduced to their results: the syncs of the files in `bad`
\* fail, the others write.
FileCounts == 0..MaxFiles
BadFiles == {{}, {1}, {batchSize + 1}}

BatchInit ==
    /\ Constructed(DefaultSettings, NoLogs)
    /\ oracle = NoOracle
    /\ fn = NoCall
    /\ \E n \in FileCounts, bad \in BadFiles :
        bat = [loop |-> IdleBulk, n |-> n, bad |-> bad]

\* syncAllExisting is called.
BatBegin ==
    /\ bat.loop.pc = "idle"
    /\ bat' = [bat EXCEPT !.loop = BulkBegin(@)]
    /\ UNCHANGED <<engineVars, oracle, fn>>

\* findAllJsonlFiles returns the n files; the first batch starts.
BatDiscover ==
    /\ bat.loop.pc = "discover"
    /\ LET files == [k \in 1..bat.n |-> k]
       IN bat' = [bat EXCEPT !.loop =
                    IF Len(files) = 0
                    THEN [@ EXCEPT !.pc = "done"]
                    ELSE BatchStarted([@ EXCEPT !.progress = <<0>>], files, 0, {})]
    /\ UNCHANGED <<engineVars, oracle, fn>>

\* The call for file k of the running batch returns.
BatReturn(k) ==
    /\ bat.loop.pc = "batch"
    /\ bat.loop.res[k] = NoResult
    /\ bat' = [bat EXCEPT !.loop.res[k] =
                    IF k \in bat.bad THEN CatchError ELSE Written("jsonlFile")]
    /\ UNCHANGED <<engineVars, oracle, fn>>

\* Promise.all settles.
BatBatchDone ==
    /\ bat.loop.pc = "batch"
    /\ BatchSettled(bat.loop)
    /\ bat' = [bat EXCEPT !.loop =
                    IF Rejects(@) THEN [@ EXCEPT !.pc = "done"]
                    ELSE IF MoreBatches(@)
                    THEN BatchStarted(Pushed(@), @.files, @.i + batchSize, {})
                    ELSE [Pushed(@) EXCEPT !.pc = "done"]]
    /\ UNCHANGED <<engineVars, oracle, fn>>

BatchNext ==
    \/ BatBegin
    \/ BatDiscover
    \/ \E k \in 1..bat.n : BatReturn(k)
    \/ BatBatchDone

BatchSpec == BatchInit /\ [][BatchNext]_vars
\* ---------------------------------------------------------------- claims
Writes(r) == r.result.action \in {"created", "updated"}

\* C1: at most one execution of syncSingleFile per path is past the
\* in-progress check; a call made while the path is in the in-progress set
\* returns 'skipped' / 'Sync already in progress' in the same step, starts no
\* execution, writes nothing, and leaves the marker with the running sync.
OneSyncPerPath ==
    /\ \A c1 \in calls, c2 \in calls : c1.path = c2.path => c1 = c2
    /\ \A c \in calls : c.path \in syncInProgress
    /\ \A r \in rets : r.result = Rejected =>
        /\ r.inProg
        /\ ~r.wrote
        /\ r.path \in syncInProgress
        /\ Cardinality({c \in calls : c.path = r.path}) = 1
    /\ Rejected.action = "skipped" /\ ~Rejected.success
    /\ Rejected.message = "Sync already in progress"

\* A call is rejected while the sync that owns the marker is in its writes.
RejectedWhileSyncing ==
    \E r \in rets, c \in calls :
        /\ r.result = Rejected
        /\ c.path = r.path
        /\ c.pc \in {"writeCopy", "writeMeta", "save"}

\* C2: a burst of events for one path, each arriving before the timer of the
\* previous one fired, leads to one executeSync: a path has at most one
\* debounce timer, after an event that timer is due one debounce delay after
\* the last event, and the callback that runs is the first of its burst,
\* runs no earlier than that, and belongs to no earlier event.
OneSyncPerBurst ==
    /\ \A p \in Paths :
        Cardinality({t \in timers : t.kind = "debounce" /\ t.path = p}) <= 1
    /\ \A p \in Paths : burst[p].last >= 0 =>
        \E t \in timers : /\ t.kind = "debounce" /\ t.path = p
                          /\ t.id = pendingSyncs[p]
                          /\ t.due = burst[p].last + DebounceDelay
    /\ \A f \in fired :
        /\ f.before = 0
        /\ f.events >= 1
        /\ f.due = f.last + DebounceDelay
        /\ now >= f.last + DebounceDelay

\* The callback runs for a burst of two events at different times.
BurstCoalesced ==
    \E f \in fired : f.events = 2 /\ f.last > 0 /\ f.before = 0

\* C3 as stated: after a sync that wrote the destination, with the source not
\* modified after that sync returned, the next sync of the path returns
\* 'skipped' / 'Already up to date' and writes nothing.
SecondSyncSkipsAfterReturn ==
    \A r \in rets :
        (r.prevWrote /\ r.untouched /\ r.result # Rejected)
            => (r.result = UpToDate /\ ~r.wrote)

\* C3: after a sync that wrote the destination, with the source not modified
\* after that sync took its syncedAt stamp, the next sync of the path returns
\* 'skipped' / 'Already up to date' and writes nothing.
SecondSyncSkipsAfterStamp ==
    \A r \in rets :
        (r.prevWrote /\ r.fresh /\ r.result # Rejected)
            => (r.result = UpToDate /\ ~r.wrote)

\* The sync after a writing sync of an unmodified source is skipped.
SecondSyncSkipped ==
    \E r \in rets :
        /\ r.prevWrote /\ r.fresh /\ r.result = UpToDate
        /\ copy[r.path].exists /\ meta[r.path].kind = "valid"

\* C4: without a sidecar a sync is needed; with a sidecar that records
\* syncedAt = T a sync is needed exactly when the source mtime is strictly
\* greater than T.
StrictStaleness ==
    oracle.asked =>
        /\ oracle.meta.kind = "absent" => oracle.answer
        /\ (oracle.meta.kind = "valid" /\ oracle.src.exists) =>
            (oracle.answer <=> oracle.src.mtime > oracle.meta.syncedAt)

\* The oracle answers "not needed" for mtime = T.
EqualStampsNotNeeded ==
    /\ oracle.asked /\ oracle.meta.kind = "valid" /\ oracle.src.exists
    /\ oracle.src.mtime = oracle.meta.syncedAt
    /\ ~oracle.answer

\* C5: whenever the sidecar cannot establish a prior sync time (unreadable,
\* not valid JSON, no syncedAt field) shouldSync answers "sync needed".
FailsOpen ==
    (oracle.asked /\ oracle.meta.kind \in {"unreadable", "garbage", "nosyncedat"})
        => oracle.answer

FailuresStayLocal ==
    /\ \A r \in rets :
        /\ r.result # Thrown
        /\ r.result = CatchError => (r.result.action = "error" /\ ~r.result.success)
    /\ \A k \in DOMAIN bulk.res : bulk.res[k] # Thrown
    /\ bulk.pc = "done" => Len(bulk.results) = Len(bulk.files)
    /\ \A c \in calls : c.path \in syncInProgress

\* A bulk sync ends with an error for one file and a written copy for the other.
OneFailedOtherWritten ==
    /\ bulk.pc = "done"
    /\ Len(bulk.results) = 2
    /\ \E j \in 1..2, k \in 1..2 :
        /\ bulk.results[j].action = "error"
        /\ bulk.results[k].action \in {"created", "updated"}

Ceil(n, d) == (n + d - 1) \div d

\* C8: N files are synced in ceil(N/10) batches of at most 10; no call of a
\* later batch is made before every call of the batch before has returned;
\* after each batch one progress count is reported, the cumulative number of
\* files processed, ending at N.
BatchesOfTen ==
    LET b == bat.loop
        n == bat.n
    IN /\ \A j \in DOMAIN b.sizes :
            /\ b.sizes[j] <= batchSize
            /\ b.sizes[j] = Min(batchSize, n - (j - 1) * batchSize)
       /\ b.pc = "batch" =>
            /\ Len(b.progress) = Len(b.sizes)
            /\ \A k \in DOMAIN b.res :
                /\ k <= b.i => b.res[k] \notin {NoResult, Unstarted}
                /\ k > b.i + batchSize => b.res[k] = Unstarted
       /\ \A j \in 2..Len(b.progress) : b.progress[j] = Min((j - 1) * batchSize, n)
       /\ (b.pc = "done" /\ n > 0) =>
            /\ Len(b.sizes) = Ceil(n, batchSize)
            /\ Len(b.progress) = Len(b.sizes) + 1
            /\ b.progress[Len(b.progress)] = n
            /\ Len(b.results) = n

\* 25 files were synced in batches of 10, 10 and 5.
TwentyFiveInThree ==
    /\ bat.loop.pc = "done"
    /\ bat.n = 25
    /\ bat.loop.sizes = <<10, 10, 5>>
    /\ bat.loop.progress = <<0, 10, 20, 25>>

\* C9: no debounce timer that was outstanding when stopWatching was called
\* starts a sync afterwards; when stopWatching returns no debounce timer is
\* pending and the watch handle is released.
StopCancelsTimers ==
    /\ \A f \in fired : ~f.afterStop
    /\ stopRet => (PendingTimers = {} /\ watcher = 0)

Active == watcher # 0 /\ watcher \in subs

\* C10: after a watcher error the engine eventually has an active watch
\* subscription again.
AlwaysRecovers == (errors > 0 /\ ~Active) ~> Active

\* C11: at most one subscription created by the engine is open at any
\* moment, and every open subscription is the one this.watcher refers to.
SingleSubscription ==
    /\ Cardinality(subs) <= 1
    /\ subs \subseteq {watcher}

DecodablePositions(data) == {i \in DOMAIN data : data[i] \in {"entry", "summary"}}
NthPosition(P, j) == CHOOSE i \in P : Cardinality({k \in P : k < i}) = j - 1

\* C13: the parser returns exactly the non-blank lines that decode, in file
\* order; a malformed line neither ends the parse nor hides a later line; the
\* sidecar's messageCount is their number and the copy keeps every line.
ParserKeepsDecodable ==
    (fn.f = "parse" /\ fn.applied) =>
        LET P == DecodablePositions(fn.in)
        IN /\ Len(fn.out.messages) = Cardinality(P)
           /\ \A j \in 1..Len(fn.out.messages) :
                fn.out.messages[j] = fn.in[NthPosition(P, j)]
           /\ fn.out.meta.messageCount = Cardinality(P)
           /\ fn.out.copy = fn.in

\* A 3-line log whose line 2 is malformed gave messageCount 2 and a copy of
\* all 3 lines.
SecondLineMalformed ==
    /\ fn.f = "parse" /\ fn.applied
    /\ fn.in = <<"entry", "junk", "summary">>
    /\ fn.out.messages = <<"entry", "summary">>
    /\ fn.out.meta.messageCount = 2
    /\ Len(fn.out.copy) = 3

\* C14: a sync that writes reports 'created' when no destination copy
\* existed before its write and 'updated' when one did.
ActionTellsCreation ==
    \A r \in rets : Writes(r) =>
        r.result.action = IF r.existed THEN "updated" ELSE "created"

\* C15: no step of the engine changes a file under the source root: every
\* step that changes a source file is a step of the log writer.
SourceReadOnly ==
    [][src' = src \/ \E p \in Paths, l \in LineKinds : WriteSource(p, l)]_vars

\* A watch-triggered sync has copied a log that is still as it was read.
WatchSyncCopied ==
    \E r \in rets :
        /\ Writes(r) /\ r.origin = "watch"
        /\ src[r.path].data = r.data
        /\ copy[r.path].data = r.data

\* C17: sanitize applied to its own output returns it unchanged.
SanitizeIdempotent ==
    (fn.f = "sanitize" /\ fn.applied) => fn.again = fn.out

\* C18: the output of sanitize holds none of < > : " | ? *, no two spaces in
\* a row, no whitespace at its start or end, and at most 255 characters.
SanitizeOutputClean ==
    (fn.f = "sanitize" /\ fn.applied) =>
        LET o == fn.out
        IN /\ \A i \in DOMAIN o : o[i] \notin InvalidChars
           /\ \A i \in 1..(Len(o) - 1) : ~(o[i] = " " /\ o[i + 1] = " ")
           /\ o # <<>> => (o[1] \notin Whitespace /\ o[Len(o)] \notin Whitespace)
           /\ Len(o) <= 255

\* The text a segment of well-formed pieces stands for: each escape is its
\* character, every other piece is itself.
TokenText(tok) ==
    IF tok \in {<<"%", "2", "F">>, <<"%", "2", "f">>} THEN <<"/">>
    ELSE IF tok = <<"%", "5", "C">> THEN <<"\\">>
    ELSE IF tok = <<"%", "C", "3", "%", "A", "9">> THEN <<"U+233">>
    ELSE tok
PlainText(parts) == Concat([k \in DOMAIN parts |-> TokenText(parts[k])])
WellFormed(parts) == \A k \in DOMAIN parts : parts[k] \in PlainTokens

\* The display name of a text, position by position: a separator that opens
\* the text or follows a separator gives nothing, any other separator gives
\* space, dash, space, and every other character gives itself.
Display(text) ==
    Concat([i \in DOMAIN text |->
              IF text[i] \notin Separators THEN <<text[i]>>
              ELSE IF i = 1 \/ text[i - 1] \in Separators THEN <<>>
              ELSE <<" ", "-", " ">>])

\* C19: decodeProjectName never throws: it returns a name for every segment,
\* and for a segment that holds a malformed escape (cut short, not
\* hexadecimal, or not UTF-8) the name is the segment itself, unchanged.
DecodeNeverThrows ==
    fn.f = "decode" /\ fn.applied =>
        /\ ~fn.out.thrown
        /\ ~WellFormed(fn.parts) => fn.out.name = fn.in

\* A segment with a valid escape and one cut short came back unchanged.
MalformedCameBack ==
    /\ fn.f = "decode" /\ fn.applied
    /\ fn.parts = <<<<"p">>, <<"%", "2", "F">>, <<"%", "2">>>>
    /\ fn.out.warned
    /\ fn.out.name = <<"p", "%", "2", "F", "%", "2">>

\* C20: for a segment of well-formed pieces decodeProjectName returns the
\* decoded text without its leading separators and with every maximal run
\* of separators replaced by space, dash, space; it returns the name
\* Unknown Project exactly when that result is empty.
DecodeCleansSeparators ==
    fn.f = "decode" /\ fn.applied /\ WellFormed(fn.parts) =>
        LET shown == Display(PlainText(fn.parts))
        IN /\ ~fn.out.warned
           /\ fn.out.name = (IF shown = <<>> THEN UnknownProject ELSE shown)
           /\ fn.out.name = UnknownProject <=> shown = <<>>

\* The leading separator is gone and the inner one is a dash between spaces.
DecodedTwoParts ==
    /\ fn.f = "decode" /\ fn.applied
    /\ fn.parts = <<<<"%", "2", "F">>, <<"p">>, <<"%", "2", "F">>, <<"p">>>>
    /\ fn.out.name = <<"p", " ", "-", " ", "p">>

\* C16: two different source paths of one projects directory never have the
\* same destination copy or the same destination sidecar.
CollisionFree ==
    fn.f = "target" /\ fn.applied /\ fn.in[1] # fn.in[2] =>
        /\ fn.out[1].jsonlFile # fn.out[2].jsonlFile
        /\ fn.out[1].metaFile # fn.out[2].metaFile

\* The entries that carry a timestamp.
Carried(messages) ==
    {i \in DOMAIN messages : messages[i].timestamp.kind \notin {"undefined", "null"}}

\* C21: messageCount is the number of entries; firstTimestamp and
\* lastTimestamp are the least and the greatest timestamp of the entries that
\* carry one, both are the build time when none does, and firstTimestamp is
\* a number not greater than lastTimestamp.
TimestampsAreMinMax ==
    (fn.f = "metadata" /\ fn.applied) =>
        LET C == Carried(fn.in)
            o == fn.out
        IN /\ o.messageCount = Len(fn.in)
           /\ o.firstTimestamp.kind = "number" /\ o.lastTimestamp.kind = "number"
           /\ o.firstTimestamp.val <= o.lastTimestamp.val
           /\ C = {} => (o.firstTimestamp.val = o.syncedAt /\ o.lastTimestamp.val = o.syncedAt)
           /\ C # {} =>
                /\ \A i \in C : /\ o.firstTimestamp.val <= fn.in[i].timestamp.val
                                 /\ o.lastTimestamp.val >= fn.in[i].timestamp.val
                /\ \E i \in C : o.firstTimestamp = fn.in[i].timestamp
                /\ \E i \in C : o.lastTimestamp = fn.in[i].timestamp

\* C22: with no source path configured nothing starts: initializeSyncer
\* creates no engine and changes nothing, no call of startWatching gets to
\* open a subscription, a call of syncAllExisting ends at once with an empty
\* result list and starts no sync, and these calls leave the destination
\* files and lastSyncTime as they are.
NoPathNoStart ==
    /\ [](bulk.pc # "idle" /\ bulk.claudePath = "" =>
            bulk.pc = "done" /\ bulk.files = <<>> /\ bulk.results = <<>>)
    /\ [][settings.claudeProjectsPath = "" =>
            /\ procs'.initd = procs.initd
            /\ procs'.init <= procs.init
            /\ procs'.start <= procs.start
            /\ (~procs.loaded /\ procs'.loaded) =>
                    UNCHANGED <<fsVars, syncVars, watcher, subs, notify, pendingSyncs, timers>>
            /\ (bulk.pc = "idle" /\ bulk'.pc # "idle") =>
                    /\ bulk'.pc = "done" /\ bulk'.results = <<>>
                    /\ UNCHANGED <<fsVars, calls, syncInProgress, lastSyncTime>>]_vars

\* With the path cleared a bulk sync has ended empty although a log exists
\* that has no copy.
EmptyBulkWithoutPath ==
    /\ procs.initd
    /\ settings.claudeProjectsPath = ""
    /\ bulk.pc = "done" /\ bulk.claudePath = "" /\ bulk.results = <<>>
    /\ src["p1"].exists /\ ~copy["p1"].exists

\* C23: lastSyncTime changes only in the step in which a sync has written
\* its sidecar after its copy; that sync then goes on to save the settings,
\* so no sync that ends skipped or fails before both files are written
\* changes it; the new value is the time of the step and not less than the
\* old one.
LastSyncOnlyAfterWrites ==
    [][lastSyncTime' # lastSyncTime =>
        /\ lastSyncTime' = now /\ lastSyncTime' > lastSyncTime
        /\ rets' = {}
        /\ \E c \in calls :
            /\ c.pc = "writeMeta"
            /\ [c EXCEPT !.pc = "save"] \in calls'
            /\ copy'[c.path] = [exists |-> TRUE, data |-> c.data]
            /\ meta'[c.path] = c.metadata /\ c.metadata.kind = "valid"]_vars

\* Both files of a sync are written and lastSyncTime is the time of the
\* sidecar write, after an earlier sync ended without writing.
StampedAfterBothWrites ==
    /\ now > 0 /\ lastSyncTime = now
    /\ done["p1"] = "other"
    /\ \E c \in calls : /\ c.pc = "save"
                         /\ copy[c.path].exists /\ meta[c.path] = c.metadata

\* The log was modified after the syncedAt of its sidecar and differs from
\* its copy.
LeftUnsynced(p) ==
    /\ meta[p].kind = "valid" /\ src[p].mtime > meta[p].syncedAt
    /\ copy[p].data # src[p].data

\* C24: while the engine watches, every change of a log is eventually
\* followed by a sync that read the log after the change: once the changes
\* cease, a log modified after its last sync does not stay different from
\* its copy for good, whether or not a sync attempt for it was rejected.
NoChangeLeftUnsynced == []<>~LeftUnsynced("p1")

\* C25: when the target is no existing directory the scripts end with a
\* failure status and the source root is as it was: nothing created, moved,
\* replaced or deleted.
RefusesMissingTarget ==
    (fn.f = "setup" /\ fn.vault # "dir") =>
        /\ fn.pc \in {"validate", "exit"}
        /\ fn.pc = "exit" => fn.exit = 1
        /\ fn.projects = fn.orig /\ fn.backup = Absent /\ ~fn.linked

\* A run with a missing target has ended in failure beside a regular directory.
RefusedBesideDirectory ==
    /\ fn.f = "setup" /\ fn.pc = "exit" /\ fn.exit = 1
    /\ fn.vault = "missing" /\ fn.projects = Directory(FALSE)

\* C26: a source root that is a link to the target is left as it is and the
\* run succeeds; a run that got to the link command and ends in success
\* leaves the source root a link to the target; a regular directory at the
\* source root is either still there or is the backup.
LinkSetupSafe ==
    fn.f = "setup" =>
        /\ (fn.orig = LinkTo("vault") /\ fn.vault = "dir") =>
                (fn.projects = fn.orig /\ (fn.pc = "exit" => fn.exit = 0))
        /\ (fn.pc = "exit" /\ fn.exit = 0 /\ fn.linked) => fn.projects = LinkTo("vault")
        /\ fn.orig.kind = "dir" => (fn.projects = fn.orig \/ fn.backup = fn.orig)

\* C27: whenever syncSingleFile returns skipped / Already up to date, the
\* destination copy exists and holds the bytes of the source file as it is
\* at that moment.
UpToDateMeansIdentical ==
    \A r \in rets :
        r.result = UpToDate =>
            (copy[r.path].exists /\ copy[r.path].data = src[r.path].data)

\* C28: whenever no sync of a path is running and its copy and its sidecar
\* both exist, the messageCount of the sidecar is the number of decodable
\* lines of the copy.
SidecarDescribesCopy ==
    \A p \in Paths :
        (/\ \A c \in calls : c.path # p
         /\ copy[p].exists /\ meta[p].kind = "valid")
            => meta[p].messageCount = Len(parseJsonlFile(copy[p].data))

\* C29: the in-progress set holds exactly the paths of the running
\* syncSingleFile calls, and a call that has returned, whatever its result,
\* has left its path out of the set.
MarkerReleased ==
    /\ syncInProgress = {c.path : c \in calls}
    /\ \A r \in rets : r.result # Rejected => r.path \notin syncInProgress

\* A sync that had written to the destination ended in its catch block and
\* no path is marked.
ReleasedAfterError ==
    /\ \E r \in rets : r.result = CatchError /\ r.wrote
    /\ syncInProgress = {}

\* The armed debounce timers of one path.
Armed(T, p) == {t \in T : t.kind = "debounce" /\ t.path = p}

\* C30: each path has at most one armed debounce timer; the pending map
\* holds exactly the paths with an armed timer, under the handle of that
\* timer; when a timer has fired its path is out of the map as the sync
\* starts; and a step that arms or re-arms the timer of one path leaves the
\* timers and map entries of the other paths as they were.
OneTimerPerPath ==
    /\ [](\A p \in Paths :
            /\ Cardinality(Armed(timers, p)) <= 1
            /\ pendingSyncs[p] # 0 <=> Armed(timers, p) # {}
            /\ \A t \in Armed(timers, p) : t.id = pendingSyncs[p])
    /\ [](\A x \in fired : pendingSyncs[x.path] = 0)
    /\ [][\A p \in Paths :
            (Armed(timers', p) # {} /\ Armed(timers', p) # Armed(timers, p))
                => \A q \in Paths \ {p} :
                      /\ Armed(timers', q) = Armed(timers, q)
                      /\ pendingSyncs'[q] = pendingSyncs[q]]_vars

\* Both paths have an armed timer, the one of p1 armed later than the one of
\* p2: an event for p1 came while the timer of p2 was waiting.
TwoTimersSideBySide ==
    \E t1 \in Armed(timers, "p1"), t2 \in Armed(timers, "p2") : t1.due > t2.due

\* A step of stopWatching: the host's call up to its await, or the part
\* after the await of either caller.
StopStep == procs'.stop # procs.stop \/ procs'.restart # procs.restart \/ stopRet'

\* C31: a step of stopWatching leaves the running syncs and the in-progress
\* set as they are, and a path that is in the in-progress set, whether or
\* not a stop comes meanwhile, gets out of it by the return of its own sync.
StopLeavesSyncs ==
    /\ [][StopStep => UNCHANGED <<calls, syncInProgress>>]_vars
    /\ \A p \in Paths : (p \in syncInProgress) ~> (\E r \in rets : r.path = p /\ ~r.inProg)

\* stopWatching has returned while a sync that has written its copy is
\* about to write the sidecar.
StoppedDuringSync ==
    /\ stopRet
    /\ \E c \in calls : c.pc = "writeMeta" /\ c.path \in syncInProgress

\* C32: once the stopWatching the host called has returned, no watch
\* subscription is open and no debounce timer starts a sync.
NoWatchAfterStop ==
    procs.off => (subs = {} /\ fired = {})

\* C33: an event that was accepted and waits in its debounce window leads to
\* a sync of its path, also when the subscription is torn down and created
\* again by the recovery from a watcher error meanwhile.
AcceptedEventSynced ==
    (pendingSyncs["p1"] # 0) ~> (\E x \in fired : x.path = "p1")

\* C34: over all the engines the plugin has created, at most one is writing
\* the destination of the log and at most one has an open watch
\* subscription.
OneWriterOneWatcher ==
    fn.f = "plugin" =>
        /\ Cardinality({i \in Engines : fn.engines[i].pc = "writing"}) <= 1
        /\ Cardinality({i \in Engines : fn.engines[i].watcher}) <= 1

\* The running call of syncSingleFile for p that is at the await pc.
CallAt(p, pc) == {c \in calls : c.path = p /\ c.pc = pc}

\* C35: the copy is only written once the destination directory is there;
\* the sidecar is only written by a sync whose own write of the copy
\* succeeded, beside that copy; lastSyncTime is only set in the step that
\* has written the sidecar; and a sync returns created or updated only with
\* directory, copy, sidecar and lastSyncTime all done.
WritesInOrder ==
    /\ [][\A p \in Paths :
            /\ copy'[p] # copy[p] => (p \in dirs /\ CallAt(p, "writeCopy") # {})
            /\ meta'[p] # meta[p] =>
                    \E c \in CallAt(p, "writeMeta") :
                        copy[p] = [exists |-> TRUE, data |-> c.data]
            /\ (lastSyncTime' # lastSyncTime /\ CallAt(p, "writeMeta") # {}) =>
                    \E c \in CallAt(p, "writeMeta") : meta'[p] = c.metadata]_vars
    /\ [](\A r \in rets :
            Writes(r) => /\ r.path \in dirs /\ copy[r.path].exists
                         /\ meta[r.path].kind = "valid"
                         /\ meta[r.path].syncedAt <= lastSyncTime)

\* A sync has returned after its four writes and the sidecar it wrote lies
\* beside the copy it wrote.
WroteAllInOrder ==
    \E r \in rets :
        /\ Writes(r) /\ copy[r.path].data = r.data
        /\ meta[r.path].kind = "valid" /\ lastSyncTime >= meta[r.path].syncedAt

\* C36: a sync of a source without a decodable line that is neither rejected
\* nor failed returns skipped / Empty JSONL file whatever sidecar lies in the
\* destination, and skipped / Already up to date is only returned for a
\* source with at least one decodable line.
EmptyCheckedFirst ==
    \A r \in rets :
        /\ (r.result \notin {Rejected, CatchError} /\ parseJsonlFile(src[r.path].data) = <<>>)
                => r.result = EmptyFile
        /\ r.result = UpToDate => parseJsonlFile(src[r.path].data) # <<>>

\* ---------------------------------------------------------------- C37
\* The logs a scan of the source root finds in DirsSpec, where every log
\* exists: the ones whose project directory can be read, in readdir order.
Readable == SelectSeq(PathOrder, LAMBDA p : p \notin fn.unreadable)

\* This step calls syncSingleFile for the file at position k of the bulk sync:
\* the call starts, or it returns at the in-progress check.
NewCallAt(k) ==
    \E c \in calls' \ calls :
        /\ c.origin = "bulk" /\ c.pc = "shouldSync" /\ c.idx = k
        /\ k \in DOMAIN bulk'.files /\ c.path = bulk'.files[k]
RejectedAt(k) ==
    \E r \in rets' :
        /\ r.origin = "bulk" /\ r.result = Rejected /\ r.inProg
        /\ k \in DOMAIN bulk'.files /\ r.path = bulk'.files[k]

\* This step starts a batch of the bulk sync.
BatchStarts == bulk'.pc = "batch" /\ (bulk.pc # "batch" \/ bulk'.i # bulk.i)

\* C37: a bulk sync finds the logs of every readable project directory, an
\* unreadable directory only leaving out its own logs; it calls syncSingleFile
\* once for every file found, batch after batch without gap or overlap; every
\* result, the rejection of a file whose watch-triggered sync is running
\* included, is kept at the position of its file, and the bulk sync returns
\* one result per file found in the order the files were found.
OneResultPerFile ==
    /\ [](bulk.pc \in {"batch", "done"} => bulk.files = Readable)
    /\ [](bulk.pc = "done" =>
            /\ Len(bulk.results) = Len(bulk.files)
            /\ \A k \in DOMAIN bulk.files :
                /\ bulk.results[k] = bulk.res[k]
                /\ bulk.results[k].action \in {"created", "updated", "skipped", "error"})
    /\ [][/\ \A k \in DOMAIN PathOrder :
               /\ (NewCallAt(k) \/ RejectedAt(k)) <=>
                      (BatchStarts /\ k \in Current(bulk'))
               /\ ~(NewCallAt(k) /\ RejectedAt(k))
          /\ BatchStarts =>
               bulk'.i = IF bulk.pc = "batch"
                         THEN bulk.i + Len(BatchOf(bulk.files, bulk.i)) ELSE 0
          /\ (bulk.pc = "batch" /\ bulk'.pc = "done") =>
               bulk.i + Len(BatchOf(bulk.files, bulk.i)) = Len(bulk.files)
          /\ \A r \in rets' : r.origin = "bulk" =>
               \E k \in DOMAIN bulk'.files :
                   /\ bulk'.files[k] = r.path
                   /\ bulk'.res[k] = r.result
                   /\ \A j \in DOMAIN bulk.res :
                        (j # k /\ bulk.pc = "batch") => bulk'.res[j] = bulk.res[j]
         ]_vars

\* A bulk sync over both logs ends with the rejection of the first, whose
\* watch-triggered sync was running, ahead of the written copy of the second.
RejectedKeepsItsPlace ==
    /\ bulk.pc = "done"
    /\ bulk.files = PathOrder
    /\ bulk.results[1] = Rejected
    /\ bulk.results[2].action \in {"created", "updated"}

\* A bulk sync ends with the result of the second log alone: the directory of
\* the first could not be read.
SkippedUnreadable ==
    /\ bulk.pc = "done"
    /\ fn.unreadable = {"p1"}
    /\ bulk.files = <<"p2">>
    /\ Len(bulk.results) = 1

\* ---------------------------------------------------------------- C38
\* triggerManualSync: the two counts of its notice,
\* results.filter(r => r.success).length and results.filter(r => !r.success).length.
successCount(results) == Cardinality({k \in DOMAIN results : results[k].success})
errorCount(results) == Cardinality({k \in DOMAIN results : ~results[k].success})

\* C38: a result has success = false exactly when its action is 'error', and
\* the failed count of a finished manual sync is the number of its files
\* whose sync ended in error.
FailedMeansError ==
    /\ \A r \in rets : (~r.result.success) <=> (r.result.action = "error")
    /\ bulk.pc = "done" =>
         errorCount(bulk.results) =
             Cardinality({k \in DOMAIN bulk.results : bulk.results[k].action = "error"})

\* A bulk sync ends with a log without entries counted as failed.
EmptyCountedFailed ==
    /\ bulk.pc = "done"
    /\ Len(bulk.results) = 1
    /\ bulk.results[1] = EmptyFile
    /\ errorCount(bulk.results) = 1 /\ successCount(bulk.results) = 0

\* ---------------------------------------------------------------- C39
\* A path without a parent directory segment: one part, or an empty part
\* before the file name.
Short(path) == Len(path) < 2 \/ path[Len(path) - 1] = <<>>

\* C39: on a path with fewer than two segments parsing raises an error, and
\* the call of syncSingleFile ends with action 'error' having written nothing.
ShortPathFailsLoudly ==
    (fn.f = "short" /\ Short(fn.path)) =>
        /\ fn.pc # "call" => fn.raised
        /\ fn.pc = "done" => (fn.result.action = "error" /\ fn.wrote = {})

\* The call on a path of one part ends with a copy and a sidecar written
\* into a project folder named after the text of the missing value.
WroteIntoInventedFolder ==
    /\ fn.f = "short" /\ Len(fn.path) = 1 /\ fn.pc = "done"
    /\ fn.parsed.encodedProjectName = undefined
    /\ fn.parsed.decodedProjectName = StringOf(undefined)
    /\ fn.result.action = "created"
    /\ fn.target.jsonlFile \in fn.wrote
    /\ fn.target.projectDir = <<StringOf(undefined)>>

====
